---- MODULE Spec2Model ----
(***************************************************************************)
(* A model of the Dehn-Thurston train track rewrite engine of              *)
(* dehn_thurston_tt.py: BranchMap, the classification queries, the         *)
(* unzip/collapse engine, the twist engine and the elementary-move engine. *)
(*                                                                         *)
(* A train track is a record                                               *)
(*   gluing_list     : sequence of outgoing-branch lists; switch s > 0 is  *)
(*                     entry 2s-1 and switch -s is entry 2s (the source    *)
(*                     uses the 0-based entries 2s-2 and 2s-1);            *)
(*   branch_endpoint : signed branch -> signed switch;                     *)
(*   measure         : sequence indexed by unsigned branch (<< >> when the *)
(*                     structure carries no measure);                      *)
(*   measured, ok    : ok = FALSE records that a call raised (assertion or *)
(*                     exception) and did not complete;                    *)
(*   hung            : TRUE records that a call entered a loop that never  *)
(*                     ends (it did not complete either);                  *)
(*   tied            : TRUE records that some unzip so far had its cut end *)
(*                     exactly between two branches (see unzip_pos).       *)
(* Positions are 0-based as in the source; sequences are 1-based.          *)
(***************************************************************************)
EXTENDS Integers, Sequences, FiniteSets, TLC

LEFT == 0
RIGHT == 1
UP == 0
TWO_SIDED == 1

\* The value of a Python call that returns nothing (positions are >= 0).
None == -1

----------------------------------------------------------------------------
(* Python list operations used by the source, on 1-based sequences.        *)

Abs(x) == IF x < 0 THEN -x ELSE x

Min(a, b) == IF a < b THEN a ELSE b

OtherSide(side) == (side + 1) % 2

\* l[:k] for k >= 0
Take(l, k) == SubSeq(l, 1, Min(k, Len(l)))

\* l[k:] for k >= 0
Drop(l, k) == SubSeq(l, Min(k, Len(l)) + 1, Len(l))

\* l[-k:] for k >= 0; Python reads l[-0:] as l[0:], the whole list
LastK(l, k) == IF k = 0 \/ k >= Len(l) THEN l ELSE SubSeq(l, Len(l) - k + 1, Len(l))

\* l[i:i] = xs for 0 <= i
Splice(l, i, xs) == Take(l, i) \o xs \o Drop(l, i)

\* l.insert(i, x) for 0 <= i
Insert(l, i, x) == Splice(l, i, <<x>>)

\* l after l.pop(i), 0 <= i < len(l)
RemoveAt(l, i) == Take(l, i) \o Drop(l, i + 1)

\* l.index(x), or -1 where Python raises ValueError
IndexOf(l, x) ==
    IF \E i \in 1..Len(l) : l[i] = x
    THEN (CHOOSE i \in 1..Len(l) : l[i] = x /\ \A j \in 1..(i-1) : l[j] # x) - 1
    ELSE -1

\* list(reversed([-b for b in l]))
ReverseNeg(l) == [i \in 1..Len(l) |-> -l[Len(l) + 1 - i]]

RECURSIVE SumSeq(_)
SumSeq(l) == IF Len(l) = 0 THEN 0 ELSE l[1] + SumSeq(Tail(l))

\* "v = e; F(v)": the value of e is computed once and handed to F.
Bind(e, F(_)) == CHOOSE r \in {F(v) : v \in {e}} : TRUE

----------------------------------------------------------------------------
(* The adjacency model (TrainTrack base class; the repository's            *)
(* train_track.py is not among the sources, modelled from the              *)
(* specification sections 3 and 6 and from the doctests of the source).    *)

SwitchIndex(switch) == IF switch > 0 THEN 2 * switch - 1 ELSE -2 * switch

NumSwitches(tt) == Len(tt.gluing_list) \div 2

Switches(tt) == {s \in -NumSwitches(tt)..NumSwitches(tt) : s # 0}

NumBranches(tt) == Cardinality(DOMAIN tt.branch_endpoint) \div 2

Branches(tt) == DOMAIN tt.branch_endpoint

outgoing_branches(tt, switch) == tt.gluing_list[SwitchIndex(switch)]

\* position index counted from start_side; defined for 0 <= index < len
HasOutgoing(tt, switch, index) ==
    index >= 0 /\ index < Len(outgoing_branches(tt, switch))

outgoing_branch(tt, switch, index, start_side) ==
    LET l == outgoing_branches(tt, switch)
    IN  IF start_side = LEFT THEN l[index + 1] ELSE l[Len(l) - index]

outgoing_branch_index(tt, switch, branch, start_side) ==
    LET l == outgoing_branches(tt, switch)
        idx == IndexOf(l, branch)
    IN  IF start_side = LEFT THEN idx ELSE Len(l) - idx - 1

branch_endpoint(tt, branch) == tt.branch_endpoint[branch]

is_measured(tt) == tt.measured

branch_measure(tt, branch) == tt.measure[Abs(branch)]

SetOutgoing(tt, switch, l) ==
    [tt EXCEPT !.gluing_list[SwitchIndex(switch)] = l]

set_endpoint(tt, branch, switch) ==
    [tt EXCEPT !.branch_endpoint[branch] = switch]

set_measure(tt, branch, value) ==
    [tt EXCEPT !.measure[Abs(branch)] = value]

Raise(tt) == [tt EXCEPT !.ok = FALSE]

Hang(tt) == [tt EXCEPT !.ok = FALSE, !.hung = TRUE]

\* Build a structure from a gluing list and an optional measure.
EndpointOf(gl, b) ==
    LET i == CHOOSE i \in 1..Len(gl) : \E j \in 1..Len(gl[i]) : gl[i][j] = -b
    IN  IF i % 2 = 1 THEN (i + 1) \div 2 ELSE -(i \div 2)

TrainTrack(gl, nbranches, meas, measured) ==
    [gluing_list |-> gl,
     branch_endpoint |-> [b \in {x \in -nbranches..nbranches : x # 0} |-> EndpointOf(gl, b)],
     measure |-> meas,
     measured |-> measured,
     ok |-> TRUE,
     hung |-> FALSE,
     tied |-> FALSE]

\* Cumulative measure of positions 0..i of switch counted from side.
RECURSIVE CumMeasure(_, _, _, _)
CumMeasure(tt, switch, i, side) ==
    IF i < 0 THEN 0
    ELSE branch_measure(tt, outgoing_branch(tt, switch, i, side))
         + CumMeasure(tt, switch, i - 1, side)

\* unzip_pos: T is the weight of positions 0..pos of switch from start_side;
\* the cut lands in the first position k of -switch (from the other side)
\* whose cumulative weight exceeds T.  Returns (unzip_pos, meas1, meas2).
\* tie tells that T is the cumulative weight of some position, so that the
\* cut ends exactly between two branches; what is returned then is a
\* convention (here: the cut goes on into the next branch).
unzip_pos(tt, switch, pos, start_side) ==
    LET n == Len(outgoing_branches(tt, -switch))
        other == OtherSide(start_side)
        T == CumMeasure(tt, switch, pos, start_side)
        C(k) == CumMeasure(tt, -switch, k, other)
        Lands == {k \in 0..(n - 1) : T < C(k)}
        tie == \E k \in 0..(n - 1) : T = C(k)
    IN  IF pos >= Len(outgoing_branches(tt, switch))
        THEN [ok |-> FALSE, unzip_pos |-> 0, meas1 |-> 0, meas2 |-> 0, tie |-> FALSE]
        ELSE IF Lands = {}
        THEN [ok |-> FALSE, unzip_pos |-> 0, meas1 |-> 0, meas2 |-> 0, tie |-> tie]
        ELSE LET k == CHOOSE k \in Lands : \A j \in Lands : k <= j
             IN  [ok |-> TRUE, unzip_pos |-> k,
                  meas1 |-> T - C(k - 1), meas2 |-> C(k) - T, tie |-> tie]

\* The structure with the record that an unzip was tied.
Tied(tt, tie) == [tt EXCEPT !.tied = @ \/ tie]

\* fold: the folded branch leaves switch and is re-attached beyond the far
\* end of the branch it is folded onto, on the side it was on; the measure
\* of the fold_onto branch grows by the measure of the folded branch.
fold(tt, switch, folded_branch_index, fold_onto_index, start_side) ==
    IF ~tt.ok THEN tt
    ELSE IF ~(HasOutgoing(tt, switch, folded_branch_index)
              /\ HasOutgoing(tt, switch, fold_onto_index)
              /\ Abs(folded_branch_index - fold_onto_index) = 1)
    THEN Raise(tt)
    ELSE
    LET l == outgoing_branches(tt, switch)
        folded_br == outgoing_branch(tt, switch, folded_branch_index, start_side)
        fold_onto_br == outgoing_branch(tt, switch, fold_onto_index, start_side)
        onRight == IndexOf(l, folded_br) > IndexOf(l, fold_onto_br)
        next_sw == branch_endpoint(tt, fold_onto_br)
        t1 == SetOutgoing(tt, switch, RemoveAt(l, IndexOf(l, folded_br)))
        tgt == outgoing_branches(t1, -next_sw)
        t2 == SetOutgoing(t1, -next_sw,
                 IF onRight THEN Append(tgt, folded_br) ELSE <<folded_br>> \o tgt)
        t3 == set_endpoint(t2, -folded_br, -next_sw)
    IN  IF is_measured(tt)
        THEN set_measure(t3, fold_onto_br,
                 branch_measure(tt, fold_onto_br) + branch_measure(tt, folded_br))
        ELSE t3

\* for b in l: self._set_endpoint(-b, switch)
set_endpoints(tt, l, switch) ==
    [tt EXCEPT !.branch_endpoint =
        [x \in DOMAIN tt.branch_endpoint |->
            IF \E i \in 1..Len(l) : l[i] = -x THEN switch
            ELSE tt.branch_endpoint[x]]]

\* change_switch_orientation: the vertex is rotated by 180 degrees, so the
\* two outgoing lists trade places.
change_switch_orientation(tt, switch) ==
    IF ~tt.ok THEN tt
    ELSE
    LET a == outgoing_branches(tt, switch)
        b == outgoing_branches(tt, -switch)
    IN  Bind(SetOutgoing(SetOutgoing(tt, switch, b), -switch, a), LAMBDA t1 :
        Bind(set_endpoints(t1, b, switch), LAMBDA t2 :
        set_endpoints(t2, a, -switch)))

----------------------------------------------------------------------------
(* Classification queries.                                                 *)

\* The value standing for a failed assertion in a query that returns a side.
AssertFailed == -1

TurningMatches(tt, switch, side) ==
    /\ Len(outgoing_branches(tt, switch)) > 0
    /\ Len(outgoing_branches(tt, -switch)) > 0
    /\ outgoing_branch(tt, switch, 0, side) = -outgoing_branch(tt, -switch, 0, side)

\* The sides tried in the order RIGHT, LEFT.
get_turning_right_first(tt, switch) ==
    IF TurningMatches(tt, switch, RIGHT) THEN RIGHT
    ELSE IF TurningMatches(tt, switch, LEFT) THEN LEFT
    ELSE AssertFailed

get_turning(tt, switch) ==
    IF TurningMatches(tt, switch, LEFT) THEN LEFT
    ELSE IF TurningMatches(tt, switch, RIGHT) THEN RIGHT
    ELSE AssertFailed

\* The branch returned with the sign it has at the switch.
pants_branch_on_switch_signed(tt, switch) ==
    IF TurningMatches(tt, switch, LEFT)
    THEN outgoing_branch(tt, switch, 0, LEFT)
    ELSE IF TurningMatches(tt, switch, RIGHT)
    THEN outgoing_branch(tt, switch, 0, RIGHT)
    ELSE 0

pants_branch_on_switch(tt, switch) ==
    IF TurningMatches(tt, switch, LEFT)
    THEN Abs(outgoing_branch(tt, switch, 0, LEFT))
    ELSE IF TurningMatches(tt, switch, RIGHT)
    THEN Abs(outgoing_branch(tt, switch, 0, RIGHT))
    ELSE 0

\* Branches that return to the pants curve are not skipped.
elem_move_type_any_endpoint(tt, pants_curve) ==
    LET top == outgoing_branches(tt, pants_curve)
        bottom == outgoing_branches(tt, -pants_curve)
    IN  IF \E i \in 1..Len(top) : \E j \in 1..Len(bottom) :
              branch_endpoint(tt, bottom[j]) = branch_endpoint(tt, top[i])
        THEN 1 ELSE 2

elem_move_type(tt, pants_curve) ==
    LET top == outgoing_branches(tt, pants_curve)
        bottom == outgoing_branches(tt, -pants_curve)
    IN  IF \E i \in 1..Len(top) :
              /\ Abs(branch_endpoint(tt, top[i])) # Abs(pants_curve)
              /\ \E j \in 1..Len(bottom) :
                    branch_endpoint(tt, bottom[j]) = branch_endpoint(tt, top[i])
        THEN 1 ELSE 2

num_curves_on_sides(tt, pants_curve) ==
    LET ntop == Len(outgoing_branches(tt, pants_curve))
        nbottom == Len(outgoing_branches(tt, -pants_curve))
    IN  IF get_turning(tt, pants_curve) = LEFT
        THEN <<nbottom - 1, ntop - 1>>
        ELSE <<ntop - 1, nbottom - 1>>

----------------------------------------------------------------------------
(* The unzip/collapse engine.                                              *)

unzip_UP(tt, switch, unzip_pos_, start_side) ==
    LET unzip_branch == outgoing_branch(tt, -switch, unzip_pos_, OtherSide(start_side))
        bottom_switch == branch_endpoint(tt, unzip_branch)
        top == outgoing_branches(tt, switch)
        collapsed_branch == IF start_side = LEFT THEN top[1] ELSE top[Len(top)]
    IN  IF Len(top) = 0 THEN Raise(tt)
        ELSE
        \* collapsed_branch = top.pop(...)
        Bind(SetOutgoing(tt, switch,
                 IF start_side = LEFT THEN RemoveAt(top, 0)
                 ELSE RemoveAt(top, Len(top) - 1)), LAMBDA t1 :
        LET end_index == IndexOf(outgoing_branches(t1, bottom_switch), -unzip_branch)
        IN  IF end_index = -1 \/ collapsed_branch = -unzip_branch THEN Raise(t1)
            ELSE
            Bind(SetOutgoing(t1, bottom_switch,
                     Insert(outgoing_branches(t1, bottom_switch),
                            IF start_side = LEFT THEN end_index ELSE end_index + 1,
                            collapsed_branch)), LAMBDA t2 :
            LET bottom_branches == outgoing_branches(t2, -switch)
                n == Len(bottom_branches)
                branches_to_move ==
                    IF start_side = LEFT THEN Drop(bottom_branches, n - unzip_pos_)
                    ELSE Take(bottom_branches, unzip_pos_)
            IN  Bind(SetOutgoing(t2, -switch,
                         IF start_side = LEFT THEN Take(bottom_branches, n - unzip_pos_)
                         ELSE Drop(bottom_branches, unzip_pos_)), LAMBDA t3 :
                LET top_switch == branch_endpoint(t3, collapsed_branch)
                    k == IndexOf(outgoing_branches(t3, top_switch), -collapsed_branch)
                IN  IF k = -1 THEN Raise(t3)
                    ELSE
                    Bind(SetOutgoing(t3, top_switch,
                             Splice(outgoing_branches(t3, top_switch),
                                    IF start_side = LEFT THEN k + 1 ELSE k,
                                    branches_to_move)), LAMBDA t4 :
                    Bind(set_endpoint(t4, -collapsed_branch, bottom_switch), LAMBDA t5 :
                    set_endpoints(t5, branches_to_move, top_switch))))))

\* The pants branch is put back at the end it was popped from.
move_bottom_branches_pants_stays(bottom, unzip_pos_, collapsed_branch, start_side) ==
    LET m == Len(bottom)
    IN  IF start_side = LEFT
        THEN Take(Drop(bottom, m + 1 - unzip_pos_) \o bottom, m)
             \o <<collapsed_branch>>
        ELSE LET ext == bottom \o Take(bottom, unzip_pos_ - 1)
             IN  <<collapsed_branch>>
                 \o (IF m = 0 THEN ext ELSE Drop(ext, Len(ext) - m))

\* The list of -switch of a TWO_SIDED unzip that crosses the pants branch,
\* after the pants branch was popped (source lines 539-549): the branches
\* the cut passed are taken to the other end and the popped branch
\* collapsed_branch is put at the start_side end.
move_bottom_branches(bottom, unzip_pos_, collapsed_branch, start_side) ==
    LET m == Len(bottom)
    IN  IF start_side = LEFT
        THEN <<collapsed_branch>>
             \o Take(Drop(bottom, m + 1 - unzip_pos_) \o bottom, m)
        ELSE LET ext == bottom \o Take(bottom, unzip_pos_ - 1)
             IN  (IF m = 0 THEN ext ELSE Drop(ext, Len(ext) - m))
                 \o <<collapsed_branch>>

\* One branch fewer is moved.
move_top_branches_one_fewer(top, pos, start_side) ==
    LET n == Len(top)
    IN  IF start_side = LEFT
        THEN LET moved == Take(top, pos)
                 ins == Splice(top, IF n = 0 THEN 0 ELSE n - 1, moved)
             IN  IF n = 0 THEN ins ELSE Drop(ins, Len(ins) - n)
        ELSE LET moved == IF pos = 0 THEN << >> ELSE LastK(top, pos)
             IN  Take(Splice(top, 1, moved), n)

\* "moving the top branches" of a TWO_SIDED unzip (source lines 519-528):
\* the list top after the slice assignment and the del.
move_top_branches(top, pos, start_side) ==
    LET n == Len(top)
    IN  IF start_side = LEFT
        THEN LET moved == Take(top, pos + 1)
                 ins == Splice(top, IF n = 0 THEN 0 ELSE n - 1, moved)
             IN  IF n = 0 THEN ins ELSE Drop(ins, Len(ins) - n)
        ELSE LET moved == LastK(top, pos + 1)
             IN  Take(Splice(top, 1, moved), n)

unzip_TWO_SIDED(tt, switch, pos, unzip_pos_, start_side) ==
    LET unzip_branch == outgoing_branch(tt, -switch, unzip_pos_, OtherSide(start_side))
        bottom_switch == branch_endpoint(tt, unzip_branch)
        top == outgoing_branches(tt, switch)
        top1 == move_top_branches(top, pos, start_side)
        collapsed_branch == IF start_side = LEFT THEN top1[Len(top1)] ELSE top1[1]
    IN  Bind(SetOutgoing(tt, switch, top1), LAMBDA t1 :
        IF unzip_pos_ <= 0 THEN t1
        ELSE IF Len(top1) = 0 \/ Len(outgoing_branches(t1, -switch)) = 0 THEN Raise(t1)
        ELSE
        \* the pants branch is popped from both lists
        Bind(SetOutgoing(t1, switch,
                 IF start_side = LEFT THEN RemoveAt(top1, Len(top1) - 1)
                 ELSE RemoveAt(top1, 0)), LAMBDA t2 :
        LET b0 == outgoing_branches(t2, -switch)
            bottom == IF start_side = LEFT THEN RemoveAt(b0, Len(b0) - 1)
                      ELSE RemoveAt(b0, 0)
            bottom1 == move_bottom_branches(bottom, unzip_pos_, collapsed_branch,
                                            start_side)
        IN  Bind(SetOutgoing(t2, -switch, bottom1), LAMBDA t3 :
            LET k == IndexOf(outgoing_branches(t3, bottom_switch), -unzip_branch)
            IN  IF k = -1 THEN Raise(t3)
                ELSE
                Bind(SetOutgoing(t3, bottom_switch,
                         Insert(outgoing_branches(t3, bottom_switch),
                                IF start_side = LEFT THEN k ELSE k + 1,
                                -collapsed_branch)), LAMBDA t4 :
                Bind(set_endpoint(t4, -collapsed_branch, -switch), LAMBDA t5 :
                set_endpoint(t5, collapsed_branch, bottom_switch))))))

\* The two pants-branch entries compared by the TWO_SIDED assertion.
PantsBranchAtEnd(tt, switch, start_side) ==
    LET top == outgoing_branches(tt, switch)
        bottom == outgoing_branches(tt, -switch)
    IN  /\ Len(top) > 0
        /\ Len(bottom) > 0
        /\ IF start_side = RIGHT THEN top[1] = -bottom[1]
           ELSE top[Len(top)] = -bottom[Len(bottom)]

unzip_with_collapse_no_measure(tt, switch, pos, unzip_pos_, collapse_type, start_side) ==
    IF ~tt.ok THEN tt
    ELSE IF collapse_type = UP /\ pos # 0 THEN Raise(tt)
    ELSE IF collapse_type = TWO_SIDED /\ ~PantsBranchAtEnd(tt, switch, start_side)
    THEN Raise(tt)
    ELSE IF ~HasOutgoing(tt, -switch, unzip_pos_) THEN Raise(tt)
    ELSE IF collapse_type = UP THEN unzip_UP(tt, switch, unzip_pos_, start_side)
    ELSE unzip_TWO_SIDED(tt, switch, pos, unzip_pos_, start_side)

\* unzip_with_collapse returns the pair (structure, returned value).  On a
\* structure without measure the landing position cannot be computed from
\* weights; it is the argument land, chosen by the caller of the model.
\* The two weights handed over the other way round.
update_measure_swapped(tt, collapse_type, up, unzip_br, other_br) ==
    IF collapse_type = UP \/ up.unzip_pos # 0
    THEN set_measure(set_measure(tt, unzip_br, up.meas1), other_br, up.meas2)
    ELSE set_measure(tt, other_br, up.meas1)

\* The case of a cut that lands in the pants branch is forgotten.
update_measure_no_cusp_case(tt, collapse_type, up, unzip_br, other_br) ==
    set_measure(set_measure(tt, unzip_br, up.meas2), other_br, up.meas1)

\* The other branch keeps what the cut leaves of its old weight.
update_measure_subtracting(tt, collapse_type, up, unzip_br, other_br) ==
    set_measure(set_measure(tt, unzip_br, up.meas2), other_br,
                branch_measure(tt, other_br) - up.meas2)

\* "updating the measure" at the end of unzip_with_collapse; other_br is
\* collapsed_branch for UP and pants_branch for TWO_SIDED.
update_measure(tt, collapse_type, up, unzip_br, other_br) ==
    IF collapse_type = UP
    THEN set_measure(set_measure(tt, unzip_br, up.meas2), other_br, up.meas1)
    ELSE IF up.unzip_pos = 0
    THEN set_measure(tt, other_br, up.meas2)
    ELSE set_measure(set_measure(tt, unzip_br, up.meas2), other_br, up.meas1)

unzip_with_collapse(tt, switch, pos, collapse_type, start_side, land) ==
    IF ~tt.ok THEN [tt |-> tt, ret |-> None]
    ELSE
    Bind(IF is_measured(tt) THEN unzip_pos(tt, switch, pos, start_side)
         ELSE [ok |-> HasOutgoing(tt, -switch, land), unzip_pos |-> land,
               meas1 |-> 0, meas2 |-> 0, tie |-> FALSE], LAMBDA up :
    Bind(Tied(tt, up.tie), LAMBDA t0 :
    IF ~up.ok THEN [tt |-> Raise(t0), ret |-> None]
    ELSE IF collapse_type = UP /\ Len(outgoing_branches(t0, switch)) = 0
    THEN [tt |-> Raise(t0), ret |-> None]
    ELSE IF collapse_type = TWO_SIDED /\ Len(outgoing_branches(t0, switch)) = 0
    THEN [tt |-> Raise(t0), ret |-> None]
    ELSE
    LET unzip_br == outgoing_branch(t0, -switch, up.unzip_pos, OtherSide(start_side))
        collapsed_branch == outgoing_branch(t0, switch, 0, start_side)
        pants_branch == outgoing_branch(t0, switch, 0, OtherSide(start_side))
    IN  \* performing the unzip
        Bind(unzip_with_collapse_no_measure(t0, switch, pos, up.unzip_pos,
                                            collapse_type, start_side), LAMBDA t1 :
        IF ~t1.ok THEN [tt |-> t1, ret |-> None]
        ELSE IF ~is_measured(t1) THEN [tt |-> t1, ret |-> None]
        ELSE [tt |-> update_measure(t1, collapse_type, up, unzip_br,
                                    IF collapse_type = UP THEN collapsed_branch
                                    ELSE pants_branch),
              ret |-> up.unzip_pos])))

----------------------------------------------------------------------------
(* The twist engine.                                                       *)

\* for i in range(count): self.fold(switch, i1, i2, start_side)
RECURSIVE FoldTimes(_, _, _, _, _, _)
FoldTimes(tt, count, switch, i1, i2, start_side) ==
    IF count <= 0 \/ ~tt.ok THEN tt
    ELSE Bind(fold(tt, switch, i1, i2, start_side), LAMBDA t1 :
         FoldTimes(t1, count - 1, switch, i1, i2, start_side))

\* The decomposition of the requested twists (source lines 632-661).
\* ok is FALSE where the source raises (no turning, or division by zero).
TwistPlan(tt, pants_curve, twists_on_left, twists_on_right) ==
    LET turning == get_turning(tt, pants_curve)
        nleft == num_curves_on_sides(tt, pants_curve)[1]
        nright == num_curves_on_sides(tt, pants_curve)[2]
        bad == [ok |-> FALSE, turning |-> turning, num_rotations |-> 0,
                good_twists_on_fixed_side |-> 0, good_twists_on_other_side |-> 0,
                nfixed_side |-> 0, nother_side |-> 0]
    IN  IF turning = AssertFailed THEN bad
        ELSE IF turning = RIGHT
        THEN IF nright = 0 THEN bad
             ELSE LET num_rotations == -(twists_on_right \div nright)
                  IN [ok |-> TRUE, turning |-> turning,
                      num_rotations |-> num_rotations,
                      good_twists_on_fixed_side |-> twists_on_right % nright,
                      good_twists_on_other_side |-> twists_on_left - num_rotations * nleft,
                      nfixed_side |-> nright, nother_side |-> nleft]
        ELSE IF nleft = 0 THEN bad
             ELSE LET num_rotations == -((-twists_on_left) \div nleft)
                  IN [ok |-> TRUE, turning |-> turning,
                      num_rotations |-> num_rotations,
                      good_twists_on_fixed_side |-> (-twists_on_left) % nleft,
                      good_twists_on_other_side |-> -(twists_on_right + num_rotations * nright),
                      nfixed_side |-> nleft, nother_side |-> nright]

\* One pass through the body of "while True" (source lines 701-758) with the
\* counter good_twists_on_other_side = good.  Returns the structure, the new
\* counter, whether the loop was left (break or exception), the position
\* handed to the unzip and the value the unzip returned.
TwistIteration(tt, switch, turning, nother_side, good) ==
    LET pos == Min(nother_side, -good) - 1
        good1 == good + pos + 1
    IN  Bind(unzip_with_collapse(tt, switch, pos, TWO_SIDED, OtherSide(turning), 0),
             LAMBDA uz :
        IF ~uz.tt.ok
        THEN [tt |-> uz.tt, good |-> good, done |-> TRUE, pos |-> pos,
              unzip_pos |-> uz.ret]
        ELSE IF uz.ret = 0
        THEN [tt |-> uz.tt, good |-> good1, done |-> (good1 = 0), pos |-> pos,
              unzip_pos |-> uz.ret]
        ELSE IF Len(outgoing_branches(uz.tt, -switch)) = 0
        THEN [tt |-> Raise(uz.tt), good |-> good1, done |-> TRUE, pos |-> pos,
              unzip_pos |-> uz.ret]
        ELSE
        LET b == outgoing_branch(uz.tt, -switch, 0, turning)
            sw == branch_endpoint(uz.tt, b)
            idx == outgoing_branch_index(uz.tt, sw, -b, turning)
            found == IndexOf(outgoing_branches(uz.tt, sw), -b) # -1
        IN  \* fold back one of the split branches: the pants curve is back
            Bind(IF found THEN fold(uz.tt, sw, idx + 1, idx, turning)
                 ELSE Raise(uz.tt), LAMBDA t2 :
            \* range(None - 1) raises on a structure without measure
            Bind(IF uz.ret = None THEN Raise(t2)
                 ELSE FoldTimes(t2, uz.ret - 1, -switch, 1, 0, OtherSide(turning)),
                 LAMBDA t3 :
            Bind(FoldTimes(t3, -good1, switch, 1, 0, OtherSide(turning)), LAMBDA t4 :
            [tt |-> change_switch_orientation(t4, switch), good |-> good1,
             done |-> TRUE, pos |-> pos, unzip_pos |-> uz.ret]))))

\* The whole "while True".  A pass that neither leaves the loop nor changes
\* the structure or the counter repeats forever.
RECURSIVE TwistLoop(_, _, _, _, _)
TwistLoop(tt, switch, turning, nother_side, good) ==
    Bind(TwistIteration(tt, switch, turning, nother_side, good), LAMBDA it :
    IF it.done THEN it.tt
    ELSE IF it.tt = tt /\ it.good = good THEN Hang(tt)
    ELSE TwistLoop(it.tt, switch, turning, nother_side, it.good))

\* The folds on the other side are left out.
TwistFolds_fixed_side_only(tt, pants_curve, plan) ==
    FoldTimes(tt, plan.good_twists_on_fixed_side, -pants_curve, 1, 0,
              plan.turning)

\* The structure when the loop is about to be entered, or the final
\* structure when only folds are needed (source lines 680-697).
TwistFolds(tt, pants_curve, plan) ==
    Bind(FoldTimes(tt, plan.good_twists_on_fixed_side, -pants_curve, 1, 0,
                   plan.turning), LAMBDA t1 :
    IF plan.good_twists_on_other_side > 0
    THEN FoldTimes(t1, plan.good_twists_on_other_side, pants_curve, 1, 0,
                   plan.turning)
    ELSE t1)

unzip_fold_general_twist(tt, pants_curve, twists_on_left, twists_on_right) ==
    IF ~tt.ok THEN tt
    ELSE
    Bind(TwistPlan(tt, pants_curve, twists_on_left, twists_on_right), LAMBDA plan :
    IF ~plan.ok THEN Raise(tt)
    ELSE
    Bind(TwistFolds(tt, pants_curve, plan), LAMBDA t1 :
    IF plan.good_twists_on_other_side > 0 \/ ~t1.ok THEN t1
    ELSE TwistLoop(t1, pants_curve, plan.turning, plan.nother_side,
                   plan.good_twists_on_other_side)))

unzip_fold_pants_twist(tt, pants_curve, power) ==
    IF ~tt.ok THEN tt
    ELSE IF get_turning(tt, pants_curve) = AssertFailed THEN Raise(tt)
    ELSE unzip_fold_general_twist(tt, pants_curve, 0,
            power * num_curves_on_sides(tt, pants_curve)[RIGHT + 1])

----------------------------------------------------------------------------
(* The elementary-move engine.                                             *)

\* The value standing for a failed assertion in a query that returns a switch.
NoSwitch == 0

\* The type of the elementary move is not asserted.
torus_boundary_switch_unchecked(tt, switch) ==
    LET l == outgoing_branches(tt, switch)
        away == {i \in 1..Len(l) : Abs(branch_endpoint(tt, l[i])) # Abs(switch)}
        i == IF away = {} THEN Len(l) ELSE CHOOSE i \in away : \A j \in away : i <= j
        new_switch == branch_endpoint(tt, l[i])
        turning == get_turning(tt, new_switch)
    IN  IF turning = AssertFailed THEN NoSwitch
        ELSE IF turning = LEFT THEN -new_switch
        ELSE new_switch

torus_boundary_switch(tt, switch) ==
    IF elem_move_type(tt, switch) # 1 THEN NoSwitch
    ELSE
    LET l == outgoing_branches(tt, switch)
        i == CHOOSE i \in 1..Len(l) :
                /\ Abs(branch_endpoint(tt, l[i])) # Abs(switch)
                /\ \A j \in 1..(i - 1) : Abs(branch_endpoint(tt, l[j])) = Abs(switch)
        new_switch == branch_endpoint(tt, l[i])
        turning == get_turning(tt, new_switch)
    IN  IF turning = AssertFailed THEN NoSwitch
        ELSE IF turning = LEFT THEN -new_switch
        ELSE new_switch

orientation_of_switch_first_move(tt, switch) ==
    IF elem_move_type(tt, switch) # 1 THEN NoSwitch
    ELSE
    LET bdy_switch == torus_boundary_switch(tt, switch)
    IN  IF bdy_switch = NoSwitch THEN NoSwitch
        ELSE
        LET turning == get_turning(tt, bdy_switch)
        IN  IF turning = AssertFailed THEN NoSwitch
            ELSE IF turning = RIGHT /\ ~HasOutgoing(tt, bdy_switch, 0) THEN NoSwitch
            ELSE IF turning = LEFT /\ ~HasOutgoing(tt, -bdy_switch, 1) THEN NoSwitch
            ELSE
            LET b == IF turning = RIGHT THEN outgoing_branch(tt, bdy_switch, 0, LEFT)
                     ELSE outgoing_branch(tt, -bdy_switch, 1, LEFT)
                sw == branch_endpoint(tt, b)
            IN  IF get_turning(tt, switch) = AssertFailed THEN NoSwitch
                ELSE IF get_turning(tt, switch) = LEFT THEN sw
                ELSE -sw

\* The arguments fold_left_of_pants_curve hands to fold (lines 1096-1102).
FoldLeftRequest(tt, bdy_switch, folded_branch_index, fold_onto_index, inverse) ==
    LET start_side == IF inverse THEN RIGHT ELSE LEFT
    IN  IF get_turning(tt, bdy_switch) = RIGHT
        THEN [switch |-> bdy_switch,
              folded_branch_index |-> folded_branch_index,
              fold_onto_index |-> fold_onto_index,
              start_side |-> start_side]
        ELSE [switch |-> -bdy_switch,
              folded_branch_index |-> folded_branch_index + 1,
              fold_onto_index |-> fold_onto_index + 1,
              start_side |-> start_side]

fold_left_of_pants_curve(tt, bdy_switch, folded_branch_index, fold_onto_index, inverse) ==
    IF ~tt.ok THEN tt
    ELSE IF get_turning(tt, bdy_switch) = AssertFailed THEN Raise(tt)
    ELSE Bind(FoldLeftRequest(tt, bdy_switch, folded_branch_index,
                              fold_onto_index, inverse), LAMBDA req :
         fold(tt, req.switch, req.folded_branch_index, req.fold_onto_index,
              req.start_side))

\* The eight-way branch without its "elif unzip_pos == 1" half.
FirstMoveCase_landing_zero_only(unzip_pos_, lamb23, turning, inverse) ==
    LET direct == ((turning = LEFT) = (~inverse))
    IN  IF unzip_pos_ = 0
        THEN IF lamb23 THEN (IF direct THEN "A" ELSE "B")
             ELSE (IF direct THEN "C" ELSE "D")
        ELSE "none"

\* The case letter of the source's eight-way branch (lines 1011-1068), or
\* "none" when the unzip returned neither 0 nor 1.
FirstMoveCase(unzip_pos_, lamb23, turning, inverse) ==
    LET direct == ((turning = LEFT) = (~inverse))
    IN  IF unzip_pos_ = 0
        THEN IF lamb23 THEN (IF direct THEN "A" ELSE "B")
             ELSE (IF direct THEN "C" ELSE "D")
        ELSE IF unzip_pos_ = 1
        THEN IF lamb23 THEN (IF direct THEN "E" ELSE "F")
             ELSE (IF direct THEN "G" ELSE "H")
        ELSE "none"

\* self.unzip_fold_general_twist(bdy_switch, twists, 0) followed by the two
\* fold_left_of_pants_curve calls of cases C, D, G and H.
TwistAndFoldLeft(tt, bdy_switch, twists, f1, o1, f2, o2, inverse) ==
    Bind(unzip_fold_general_twist(tt, bdy_switch, twists, 0), LAMBDA t1 :
    Bind(fold_left_of_pants_curve(t1, bdy_switch, f1, o1, inverse), LAMBDA t2 :
    fold_left_of_pants_curve(t2, bdy_switch, f2, o2, inverse)))

FirstMoveSteps(tt, case, switch, bdy_switch, turning, twist_sign, inverse) ==
    IF case = "A" THEN fold(tt, -switch, 1, 2, turning)
    ELSE IF case = "B" \/ case = "F"
    THEN Bind(fold(tt, switch, 1, 0, OtherSide(turning)), LAMBDA t1 :
         unzip_fold_general_twist(t1, bdy_switch, twist_sign, 0))
    ELSE IF case = "C"
    THEN TwistAndFoldLeft(tt, bdy_switch, twist_sign, 0, 1, 2, 1, inverse)
    ELSE IF case = "D"
    THEN TwistAndFoldLeft(tt, bdy_switch, 2 * twist_sign, 3, 2, 0, 1, inverse)
    ELSE IF case = "E" THEN fold(tt, -switch, 0, 1, turning)
    ELSE IF case = "G"
    THEN TwistAndFoldLeft(tt, bdy_switch, twist_sign, 0, 1, 3, 2, inverse)
    ELSE IF case = "H"
    THEN TwistAndFoldLeft(tt, bdy_switch, 2 * twist_sign, 4, 3, 0, 1, inverse)
    ELSE tt

\* The case unzip_fold_first_move(switch_, inverse) runs on tt ("fail" when
\* it raises before the branch).
FirstMoveCaseOf(tt, switch_, inverse, land) ==
    Bind(orientation_of_switch_first_move(tt, switch_), LAMBDA switch :
    IF ~tt.ok \/ switch = NoSwitch THEN "fail"
    ELSE IF get_turning(tt, switch) = AssertFailed THEN "fail"
    ELSE IF torus_boundary_switch(tt, switch) = NoSwitch THEN "fail"
    ELSE
    Bind(get_turning(tt, switch), LAMBDA turning :
    Bind(unzip_with_collapse(tt, switch, 0, UP, OtherSide(turning), land), LAMBDA uz :
    IF ~uz.tt.ok THEN "fail"
    ELSE FirstMoveCase(uz.ret, Len(outgoing_branches(tt, switch)) = 3,
                       turning, inverse))))

unzip_fold_first_move(tt, switch_, inverse, land) ==
    IF ~tt.ok THEN tt
    ELSE
    Bind(orientation_of_switch_first_move(tt, switch_), LAMBDA switch :
    IF switch = NoSwitch THEN Raise(tt)
    ELSE IF get_turning(tt, switch) = AssertFailed THEN Raise(tt)
    ELSE IF torus_boundary_switch(tt, switch) = NoSwitch THEN Raise(tt)
    ELSE
    Bind(get_turning(tt, switch), LAMBDA turning :
    Bind(torus_boundary_switch(tt, switch), LAMBDA bdy_switch :
    Bind(unzip_with_collapse(tt, switch, 0, UP, OtherSide(turning), land), LAMBDA uz :
    FirstMoveSteps(uz.tt,
                   FirstMoveCase(uz.ret, Len(outgoing_branches(tt, switch)) = 3,
                                 turning, inverse),
                   switch, bdy_switch, turning, IF inverse THEN -1 ELSE 1,
                   inverse)))))

\* Two forward moves where the source makes three.
first_move_inverse_two_moves(tt, switch) ==
    Bind(unzip_fold_first_move(tt, switch, FALSE, 0), LAMBDA t1 :
    Bind(unzip_fold_first_move(t1, switch, FALSE, 0), LAMBDA t3 :
    IF ~t3.ok THEN t3
    ELSE Bind(torus_boundary_switch(t3, switch), LAMBDA bdy_switch :
         IF bdy_switch = NoSwitch THEN Raise(t3)
         ELSE unzip_fold_pants_twist(t3, bdy_switch, -1))))

unzip_fold_first_move_inverse(tt, switch) ==
    Bind(unzip_fold_first_move(tt, switch, FALSE, 0), LAMBDA t1 :
    Bind(unzip_fold_first_move(t1, switch, FALSE, 0), LAMBDA t2 :
    Bind(unzip_fold_first_move(t2, switch, FALSE, 0), LAMBDA t3 :
    IF ~t3.ok THEN t3
    ELSE Bind(torus_boundary_switch(t3, switch), LAMBDA bdy_switch :
         IF bdy_switch = NoSwitch THEN Raise(t3)
         ELSE unzip_fold_pants_twist(t3, bdy_switch, -1)))))

----------------------------------------------------------------------------
(* BranchMap: for every tracked branch b > 0 the list _branch_map[b].      *)

\* BranchMap.__init__: {abs(b): [abs(b)] for b in branches}
BranchMap(branches) ==
    [b \in {Abs(branches[i]) : i \in 1..Len(branches)} |-> <<b>>]

\* branch_list that reverses the list of a negative branch without negating.
branch_list_unsigned(bm, branch) ==
    IF branch > 0 THEN bm[branch]
    ELSE [i \in 1..Len(bm[-branch]) |-> bm[-branch][Len(bm[-branch]) + 1 - i]]

branch_list(bm, branch) ==
    IF branch > 0 THEN bm[branch] ELSE ReverseNeg(bm[-branch])

\* append that extends at the end whatever the sign of append_to.
append_at_end(bm, append_to, appended_branch) ==
    [bm EXCEPT ![Abs(append_to)] = @ \o branch_list(bm, appended_branch)]

\* list.extend and the slice assignment read their argument before they
\* change the list, also when the argument is the list itself.
append(bm, append_to, appended_branch) ==
    IF append_to > 0
    THEN [bm EXCEPT ![append_to] = @ \o branch_list(bm, appended_branch)]
    ELSE [bm EXCEPT ![-append_to] = branch_list(bm, -appended_branch) \o @]

\* The locals of an UP unzip that lines 508-514 use, computed as lines
\* 452-495 compute them: the collapsed branch is popped and inserted at the
\* endpoint of the unzip branch before the branches to move are sliced off.
up_locals(tt, switch, unzip_pos_, start_side) ==
    LET unzip_branch == outgoing_branch(tt, -switch, unzip_pos_, OtherSide(start_side))
        bottom_switch == branch_endpoint(tt, unzip_branch)
        top == outgoing_branches(tt, switch)
        collapsed_branch == IF start_side = LEFT THEN top[1] ELSE top[Len(top)]
        t1 == SetOutgoing(tt, switch,
                  IF start_side = LEFT THEN RemoveAt(top, 0)
                  ELSE RemoveAt(top, Len(top) - 1))
        end_index == IndexOf(outgoing_branches(t1, bottom_switch), -unzip_branch)
        t2 == SetOutgoing(t1, bottom_switch,
                  Insert(outgoing_branches(t1, bottom_switch),
                         IF start_side = LEFT THEN end_index ELSE end_index + 1,
                         collapsed_branch))
        bottom_branches == outgoing_branches(t2, -switch)
        n == Len(bottom_branches)
    IN  [unzip_branch |-> unzip_branch,
         collapsed_branch |-> collapsed_branch,
         branches_to_move |->
             IF start_side = LEFT THEN Drop(bottom_branches, n - unzip_pos_)
             ELSE Take(bottom_branches, unzip_pos_)]

\* for branch in branches_to_move: branch_map.append(-branch, collapsed_branch)
RECURSIVE append_to_each(_, _, _)
append_to_each(bm, branches_to_move, collapsed_branch) ==
    IF Len(branches_to_move) = 0 THEN bm
    ELSE append_to_each(append(bm, -Head(branches_to_move), collapsed_branch),
                        Tail(branches_to_move), collapsed_branch)

\* The record of the collapsed branch updated before those of the others.
update_branch_map_collapsed_first(bm, branches_to_move, collapsed_branch, unzip_branch) ==
    append_to_each(append(bm, -collapsed_branch, unzip_branch),
                   branches_to_move, collapsed_branch)

\* Lines 508-514.
update_branch_map(bm, branches_to_move, collapsed_branch, unzip_branch) ==
    append(append_to_each(bm, branches_to_move, collapsed_branch),
           -collapsed_branch, unzip_branch)

\* branch_map after unzip_with_collapse_no_measure(switch, pos, unzip_pos,
\* collapse_type, branch_map, start_side): only the UP part touches it, and
\* only when nothing was raised before line 508.
unzip_branch_map(tt, bm, switch, pos, unzip_pos_, collapse_type, start_side) ==
    IF collapse_type # UP THEN bm
    ELSE IF ~unzip_with_collapse_no_measure(tt, switch, pos, unzip_pos_,
                                            collapse_type, start_side).ok
    THEN bm
    ELSE Bind(up_locals(tt, switch, unzip_pos_, start_side), LAMBDA l :
         update_branch_map(bm, l.branches_to_move, l.collapsed_branch,
                           l.unzip_branch))

\* self._branch_map[abs(branch)] finds a list (a KeyError otherwise).
HasRecord(bm, branch) == Abs(branch) \in DOMAIN bm

\* Lines 508-514 on a BranchMap that may lack records: the appends made
\* before the first KeyError stay; raised tells that there was one.
RECURSIVE update_branch_map_KeyError(_, _, _, _)
update_branch_map_KeyError(bm, branches_to_move, collapsed_branch, unzip_branch) ==
    IF Len(branches_to_move) = 0
    THEN IF HasRecord(bm, collapsed_branch) /\ HasRecord(bm, unzip_branch)
         THEN [raised |-> FALSE,
               branch_map |-> append(bm, -collapsed_branch, unzip_branch)]
         ELSE [raised |-> TRUE, branch_map |-> bm]
    ELSE IF HasRecord(bm, Head(branches_to_move)) /\ HasRecord(bm, collapsed_branch)
    THEN update_branch_map_KeyError(
             append(bm, -Head(branches_to_move), collapsed_branch),
             Tail(branches_to_move), collapsed_branch, unzip_branch)
    ELSE [raised |-> TRUE, branch_map |-> bm]

\* unzip_with_collapse_no_measure with its branch_map argument: tracking
\* tells that branch_map is not None, bm is its _branch_map.  The result is
\* the pair (structure, _branch_map); lines 508-514 run after the lists and
\* the endpoints were rewritten.
unzip_with_collapse_no_measure_branch_map(tt, tracking, bm, switch, pos, unzip_pos_, collapse_type, start_side) ==
    Bind(unzip_with_collapse_no_measure(tt, switch, pos, unzip_pos_,
                                        collapse_type, start_side), LAMBDA t1 :
    IF ~tt.ok \/ ~t1.ok \/ collapse_type # UP \/ ~tracking
    THEN [tt |-> t1, branch_map |-> bm]
    ELSE Bind(up_locals(tt, switch, unzip_pos_, start_side), LAMBDA l :
         Bind(update_branch_map_KeyError(bm, l.branches_to_move,
                                         l.collapsed_branch, l.unzip_branch),
              LAMBDA u :
         [tt |-> IF u.raised THEN Raise(t1) ELSE t1,
          branch_map |-> u.branch_map])))

\* unzip_with_collapse with its branch_map argument: the triple (structure,
\* returned value, _branch_map).
unzip_with_collapse_branch_map(tt, tracking, bm, switch, pos, collapse_type, start_side, land) ==
    IF ~tt.ok THEN [tt |-> tt, ret |-> None, branch_map |-> bm]
    ELSE
    Bind(IF is_measured(tt) THEN unzip_pos(tt, switch, pos, start_side)
         ELSE [ok |-> HasOutgoing(tt, -switch, land), unzip_pos |-> land,
               meas1 |-> 0, meas2 |-> 0, tie |-> FALSE], LAMBDA up :
    Bind(Tied(tt, up.tie), LAMBDA t0 :
    IF ~up.ok THEN [tt |-> Raise(t0), ret |-> None, branch_map |-> bm]
    ELSE IF Len(outgoing_branches(t0, switch)) = 0
    THEN [tt |-> Raise(t0), ret |-> None, branch_map |-> bm]
    ELSE
    LET unzip_br == outgoing_branch(t0, -switch, up.unzip_pos, OtherSide(start_side))
        collapsed_branch == outgoing_branch(t0, switch, 0, start_side)
        pants_branch == outgoing_branch(t0, switch, 0, OtherSide(start_side))
    IN  \* performing the unzip
        Bind(unzip_with_collapse_no_measure_branch_map(
                 t0, tracking, bm, switch, pos, up.unzip_pos, collapse_type,
                 start_side), LAMBDA r :
        IF ~r.tt.ok \/ ~is_measured(r.tt)
        THEN [tt |-> r.tt, ret |-> None, branch_map |-> r.branch_map]
        ELSE [tt |-> update_measure(r.tt, collapse_type, up, unzip_br,
                                    IF collapse_type = UP THEN collapsed_branch
                                    ELSE pants_branch),
              ret |-> up.unzip_pos,
              branch_map |-> r.branch_map])))

\* unzip_fold_first_move with its branch_map argument, which only the unzip
\* of lines 996-997 receives: the pair (structure, _branch_map).
unzip_fold_first_move_branch_map(tt, tracking, bm, switch_, inverse, land) ==
    IF ~tt.ok THEN [tt |-> tt, branch_map |-> bm]
    ELSE
    Bind(orientation_of_switch_first_move(tt, switch_), LAMBDA switch :
    IF switch = NoSwitch THEN [tt |-> Raise(tt), branch_map |-> bm]
    ELSE IF get_turning(tt, switch) = AssertFailed
    THEN [tt |-> Raise(tt), branch_map |-> bm]
    ELSE IF torus_boundary_switch(tt, switch) = NoSwitch
    THEN [tt |-> Raise(tt), branch_map |-> bm]
    ELSE
    Bind(get_turning(tt, switch), LAMBDA turning :
    Bind(torus_boundary_switch(tt, switch), LAMBDA bdy_switch :
    Bind(unzip_with_collapse_branch_map(tt, tracking, bm, switch, 0, UP,
                                        OtherSide(turning), land), LAMBDA uz :
    [tt |-> FirstMoveSteps(uz.tt,
                FirstMoveCase(uz.ret, Len(outgoing_branches(tt, switch)) = 3,
                              turning, inverse),
                switch, bdy_switch, turning, IF inverse THEN -1 ELSE 1,
                inverse),
     branch_map |-> uz.branch_map]))))

----------------------------------------------------------------------------
(* State.                                                                  *)

VARIABLES
    tt,              \* the DehnThurstonTT object
    pre,             \* the object when the last call was made
    orig,            \* the object as constructed
    call,            \* the last call: [op, args, ret]
    ncalls,          \* the number of calls made so far
    loop,            \* the twist loop in progress: locals of the "while True"
    branch_map,      \* the BranchMap object: _branch_map
    old_branch_map   \* _branch_map when the last append was made

vars == <<tt, pre, orig, call, ncalls, loop, branch_map, old_branch_map>>

NoCall == [op |-> "none", args |-> << >>, ret |-> None]

NoLoop == [active |-> FALSE, switch |-> 0, turning |-> 0, nother_side |-> 0,
           good |-> 0, iterations |-> 0, pos |-> None, unzip_pos |-> None]

NoTrack == TrainTrack(<< >>, 0, << >>, FALSE)

NoMap == BranchMap(<< >>)

----------------------------------------------------------------------------
(* The structures the engine is run on.                                    *)

\* The largest measure given to a branch that meets a pants curve.
MaxWeight == 3

\* The largest number of twists asked for in one call.
MaxTwist == 1

\* The most calls made on one structure.
MaxCalls == 1

Weights == 2..MaxWeight

\* The measures given to a pants curve: none, less than any branch that
\* meets it, or more than any.
PantsWeights == {0, 1, MaxWeight + 1}

Twists == -MaxTwist..MaxTwist

\* The pants curve 1 with three branches on each side, turning LEFT
\* (the structure of the doctests of unzip_fold_general_twist).
LeftTurningGluing ==
    <<<<1, 2, 3, 4>>, <<-1, -5, -6, -7>>, <<5>>, <<-2>>, <<6>>, <<-3>>, <<7>>, <<-4>>>>

\* The same, turning RIGHT.
RightTurningGluing ==
    <<<<2, 3, 4, 1>>, <<-5, -6, -7, -1>>, <<5>>, <<-2>>, <<6>>, <<-3>>, <<7>>, <<-4>>>>

\* A pants curve with branches on one side only.
OneSidedGluing == <<<<1>>, <<-1, 2, -2>>>>

\* The genus two structures of the doctests of unzip_fold_first_move: three
\* pants curves, the first with three outgoing branches on each side ...
Lambda23Gluing ==
    <<<<1, 6, 5>>, <<-1, 4, -6>>, <<-5, -4, 2>>, <<-8, -7, -2>>, <<7, 9, 3>>,
      <<-9, 8, -3>>>>

\* ... or with two.
Lambda11Gluing ==
    <<<<1, 5>>, <<-1, 4>>, <<2, -8, 9, -7, -9>>, <<-2, -5, 6, -4, -6>>, <<7, 3>>,
      <<8, -3>>>>

\* Measured structures in which every switch is balanced.
TwistStructures ==
    {TrainTrack(gl, 7, <<m, a, b, c, a, b, c>>, TRUE) :
        gl \in {LeftTurningGluing, RightTurningGluing},
        m \in PantsWeights, a \in Weights, b \in Weights, c \in Weights}
    \cup {TrainTrack(OneSidedGluing, 2, <<m, 0>>, TRUE) : m \in PantsWeights}

GenusTwoStructures ==
    {TrainTrack(Lambda23Gluing, 9, <<m, m, m, a, a, b, a, a, c>>, TRUE) :
        m \in PantsWeights, a \in Weights, b \in Weights, c \in Weights}
    \cup {TrainTrack(Lambda11Gluing, 9, w, TRUE) :
            w \in {v \in {<<m, m, m, a, a, b, c, c, a + b - c>> :
                            m \in PantsWeights, a \in Weights, b \in Weights,
                            c \in Weights} : v[9] >= 0}}

\* Structures that carry no measure.
UnmeasuredStructures ==
    {TrainTrack(gl, 7, << >>, FALSE) : gl \in {LeftTurningGluing, RightTurningGluing}}

----------------------------------------------------------------------------
(* The engine under calls of its public operations.  A call that raises    *)
(* leaves the object as it was when the exception left the method, with    *)
(* ok = FALSE; nothing is called on it afterwards.                         *)

Init ==
    /\ tt \in TwistStructures \cup GenusTwoStructures \cup UnmeasuredStructures
    /\ pre = tt /\ orig = tt
    /\ call = NoCall /\ ncalls = 0 /\ loop = NoLoop
    /\ branch_map = NoMap /\ old_branch_map = NoMap

CanCall == tt.ok /\ ncalls < MaxCalls

Returns(op, args, result, ret) ==
    /\ tt' = result
    /\ pre' = tt
    /\ call' = [op |-> op, args |-> args, ret |-> ret]
    /\ ncalls' = ncalls + 1
    /\ UNCHANGED <<orig, loop, branch_map, old_branch_map>>

Positions(t, switch) == 0..(Len(outgoing_branches(t, switch)) - 1)

\* The positions the base class may report for a structure without measure.
Landings(t, switch) ==
    IF is_measured(t) THEN {0} ELSE Positions(t, -switch)

UnzipWithCollapse ==
    /\ CanCall
    /\ \E switch \in Switches(tt), collapse_type \in {UP, TWO_SIDED},
          start_side \in {LEFT, RIGHT} :
          \E pos \in Positions(tt, switch), land \in Landings(tt, switch) :
             LET r == unzip_with_collapse(tt, switch, pos, collapse_type,
                                          start_side, land)
             IN  Returns("unzip_with_collapse",
                         <<switch, pos, collapse_type, start_side, land>>,
                         r.tt, r.ret)

\* Called directly only on a structure without measure: the method leaves
\* the measure alone.
UnzipWithCollapseNoMeasure ==
    /\ CanCall
    /\ ~is_measured(tt)
    /\ \E switch \in Switches(tt), collapse_type \in {UP, TWO_SIDED},
          start_side \in {LEFT, RIGHT} :
          \E pos \in Positions(tt, switch), unzip_pos_ \in Positions(tt, -switch) :
             Returns("unzip_with_collapse_no_measure",
                     <<switch, pos, unzip_pos_, collapse_type, start_side>>,
                     unzip_with_collapse_no_measure(tt, switch, pos, unzip_pos_,
                                                    collapse_type, start_side),
                     None)

Fold ==
    /\ CanCall
    /\ \E switch \in Switches(tt), start_side \in {LEFT, RIGHT} :
          \E folded_branch_index \in Positions(tt, switch),
             fold_onto_index \in Positions(tt, switch) :
             Returns("fold",
                     <<switch, folded_branch_index, fold_onto_index, start_side>>,
                     fold(tt, switch, folded_branch_index, fold_onto_index,
                          start_side),
                     None)

GeneralTwist ==
    /\ CanCall
    /\ is_measured(tt)
    /\ \E pants_curve \in Switches(tt), twists_on_left \in Twists,
          twists_on_right \in Twists :
          Returns("unzip_fold_general_twist",
                  <<pants_curve, twists_on_left, twists_on_right>>,
                  unzip_fold_general_twist(tt, pants_curve, twists_on_left,
                                           twists_on_right),
                  None)

PantsTwist ==
    /\ CanCall
    /\ is_measured(tt)
    /\ \E pants_curve \in Switches(tt), power \in Twists :
          Returns("unzip_fold_pants_twist", <<pants_curve, power>>,
                  unzip_fold_pants_twist(tt, pants_curve, power), None)

Next ==
    \/ UnzipWithCollapse
    \/ UnzipWithCollapseNoMeasure
    \/ Fold
    \/ GeneralTwist
    \/ PantsTwist

Spec == Init /\ [][Next]_vars

\* One call on a constructed structure.
OneUnzipWithCollapse == ncalls = 0 /\ UnzipWithCollapse

OneUnzipWithCollapseNoMeasure == ncalls = 0 /\ UnzipWithCollapseNoMeasure

OneFold == ncalls = 0 /\ Fold

OneGeneralTwist == ncalls = 0 /\ GeneralTwist

OnePantsTwist == ncalls = 0 /\ PantsTwist

NextCall ==
    \/ OneUnzipWithCollapse
    \/ OneUnzipWithCollapseNoMeasure
    \/ OneFold
    \/ OneGeneralTwist
    \/ OnePantsTwist

SpecCall == Init /\ [][NextCall]_vars

----------------------------------------------------------------------------
(* Properties of the engine.                                               *)

MeasureOf(t, l) == SumSeq([i \in 1..Len(l) |-> branch_measure(t, l[i])])

\* At every switch the two sides carry the same total measure.
Balanced(t) ==
    \A s \in 1..NumSwitches(t) :
        MeasureOf(t, outgoing_branches(t, s)) = MeasureOf(t, outgoing_branches(t, -s))

\* The places of the gluing list that hold the signed branch b.
Occurrences(t, b) ==
    {<<i, j>> \in (1..Len(t.gluing_list)) \X (1..(2 * NumBranches(t))) :
        j <= Len(t.gluing_list[i]) /\ t.gluing_list[i][j] = b}

Mirrored(t) ==
    \A b \in Branches(t) :
        /\ Cardinality(Occurrences(t, b)) = 1
        /\ \E i \in 1..Len(outgoing_branches(t, branch_endpoint(t, b))) :
              outgoing_branches(t, branch_endpoint(t, b))[i] = -b

NormalForm(t) == \A s \in Switches(t) : get_turning(t, s) # AssertFailed

\* The last call completed, and no unzip so far ended exactly between two
\* branches, where the position the base class reports is a convention.
Decided(t) == t.ok /\ ~t.tied

IsTwist(c) == c.op \in {"unzip_fold_general_twist", "unzip_fold_pants_twist"}

\* C1: from a measured structure that is balanced at every switch, the
\* structure is balanced at every switch after every completed
\* unzip_with_collapse, fold, unzip_fold_general_twist and
\* unzip_fold_pants_twist call.
C1_BalanceInvariant ==
    (Decided(tt) /\ is_measured(tt)) => Balanced(tt)

\* C2: after every completed unzip_with_collapse_no_measure,
\* unzip_with_collapse, fold and unzip_fold_general_twist call every signed
\* branch occurs exactly once over all outgoing lists and -b is an outgoing
\* branch of branch_endpoint(b).
C2_MirrorInvariant ==
    (Decided(tt) /\ call.op # "unzip_fold_pants_twist") => Mirrored(tt)

\* C7: every unzip_with_collapse call that completes returns the position
\* unzip_pos reported, for UP and TWO_SIDED, with and without a measure.
C7_ReturnsUnzipPos ==
    (call.op = "unzip_with_collapse" /\ Decided(tt)) =>
        call.ret = IF is_measured(pre)
                   THEN unzip_pos(pre, call.args[1], call.args[2], call.args[4]).unzip_pos
                   ELSE call.args[5]

\* C8: a completed twist about c on a structure in which get_turning is
\* defined at every switch leaves get_turning defined at every switch and
\* the same pants branch on c.
C8_TwistKeepsNormalForm ==
    (IsTwist(call) /\ Decided(tt) /\ NormalForm(pre)) =>
        /\ NormalForm(tt)
        /\ pants_branch_on_switch(tt, call.args[1]) =
              pants_branch_on_switch(pre, call.args[1])

\* The call that just returned is unzip_with_collapse(switch, pos,
\* collapse_type, start_side) on a measured structure.
UnzipReturned ==
    call.op = "unzip_with_collapse" /\ tt.ok /\ is_measured(pre)

\* T: the measure of positions 0..pos of switch counted from start_side.
CutWeight == CumMeasure(pre, call.args[1], call.args[2], call.args[4])

\* C_i: the measure of positions 0..i of -switch counted from the other side.
FarWeight(i) == CumMeasure(pre, -call.args[1], i, OtherSide(call.args[4]))

\* The branches the call names, read before the call.
UnzipBranch(k) == outgoing_branch(pre, -call.args[1], k, OtherSide(call.args[4]))

CollapsedBranch == outgoing_branch(pre, call.args[1], 0, call.args[4])

PantsBranch == outgoing_branch(pre, call.args[1], 0, OtherSide(call.args[4]))

\* C11: with T the measure of positions 0..pos of switch from start_side
\* and C_i the cumulative measure of positions 0..i of -switch from the
\* other side, if C_{k-1} < T < C_k then unzip_with_collapse returns k, the
\* branch at position k of -switch ends with measure C_k - T, and the
\* collapsed branch (UP) or, for TWO_SIDED with k > 0, the pants branch ends
\* with measure T - C_{k-1}.
C11_UnzipPositionAndWeights ==
    UnzipReturned =>
        \A k \in Positions(pre, -call.args[1]) :
            (FarWeight(k - 1) < CutWeight /\ CutWeight < FarWeight(k)) =>
                /\ call.ret = k
                /\ branch_measure(tt, UnzipBranch(k)) = FarWeight(k) - CutWeight
                /\ (call.args[3] = UP =>
                      branch_measure(tt, CollapsedBranch) = CutWeight - FarWeight(k - 1))
                /\ (call.args[3] = TWO_SIDED /\ k > 0 =>
                      branch_measure(tt, PantsBranch) = CutWeight - FarWeight(k - 1))

\* A TWO_SIDED unzip whose cut went past the pants branch and ended inside a
\* branch has returned.
C11_Witness ==
    /\ UnzipReturned
    /\ call.args[3] = TWO_SIDED
    /\ call.ret >= 1
    /\ FarWeight(call.ret - 1) < CutWeight /\ CutWeight < FarWeight(call.ret)
    /\ branch_measure(tt, PantsBranch) > 0

\* What unzip_pos reported to the call that just returned.
Reported == unzip_pos(pre, call.args[1], call.args[2], call.args[4])

\* The unsigned branches whose measure the call changed.
ChangedMeasures ==
    {b \in 1..NumBranches(pre) : tt.measure[b] # pre.measure[b]}

\* C12: a completed unzip_with_collapse on a measured structure changes the
\* measure of at most two branches: for UP the unzip-destination branch gets
\* meas2 and the collapsed branch meas1; for TWO_SIDED with unzip_pos = 0
\* only the pants branch changes, to meas2; for TWO_SIDED with unzip_pos > 0
\* the unzip-destination branch gets meas2 and the pants branch meas1.
C12_MeasureTransportFrame ==
    UnzipReturned =>
        IF call.args[3] = UP
        THEN /\ ChangedMeasures \subseteq
                    {Abs(UnzipBranch(Reported.unzip_pos)), Abs(CollapsedBranch)}
             /\ branch_measure(tt, UnzipBranch(Reported.unzip_pos)) = Reported.meas2
             /\ branch_measure(tt, CollapsedBranch) = Reported.meas1
        ELSE IF Reported.unzip_pos = 0
        THEN /\ ChangedMeasures \subseteq {Abs(PantsBranch)}
             /\ branch_measure(tt, PantsBranch) = Reported.meas2
        ELSE /\ ChangedMeasures \subseteq
                    {Abs(UnzipBranch(Reported.unzip_pos)), Abs(PantsBranch)}
             /\ branch_measure(tt, UnzipBranch(Reported.unzip_pos)) = Reported.meas2
             /\ branch_measure(tt, PantsBranch) = Reported.meas1

\* A TWO_SIDED unzip whose cut landed in the pants branch has returned and
\* has changed the measure of the pants branch.
C12_Witness ==
    /\ UnzipReturned
    /\ call.args[3] = TWO_SIDED
    /\ Reported.unzip_pos = 0
    /\ ChangedMeasures = {Abs(PantsBranch)}

\* The same pants twist asked for at the other direction of the switch, on
\* the structure the call that just returned started from.
TwistOfNegatedSwitch ==
    unzip_fold_pants_twist(pre, -call.args[1], call.args[2])

\* C13: from the same balanced structure unzip_fold_pants_twist(c, k) and
\* unzip_fold_pants_twist(-c, k) produce the same adjacency lists and the
\* same measure, for every pants curve c and every k.
C13_TwistIgnoresDirection ==
    (/\ call.op = "unzip_fold_pants_twist"
     /\ Decided(tt) /\ Decided(TwistOfNegatedSwitch)) =>
        /\ TwistOfNegatedSwitch.gluing_list = tt.gluing_list
        /\ TwistOfNegatedSwitch.measure = tt.measure

\* The call that just returned is unzip_fold_pants_twist(c, k) with k in
\* the folding direction of c.
FoldingTwistReturned ==
    /\ call.op = "unzip_fold_pants_twist"
    /\ tt.ok
    /\ \/ get_turning(pre, call.args[1]) = LEFT /\ call.args[2] < 0
       \/ get_turning(pre, call.args[1]) = RIGHT /\ call.args[2] > 0

\* The measure of the outgoing branches of c besides the pants branch.
SideMeasure(t, c) ==
    MeasureOf(t, outgoing_branches(t, c))
        - t.measure[pants_branch_on_switch(t, c)]

ZeroTwistReturned ==
    \/ /\ call.op = "unzip_fold_general_twist"
       /\ call.args[2] = 0 /\ call.args[3] = 0
    \/ /\ call.op = "unzip_fold_pants_twist"
       /\ call.args[2] = 0

\* C20: the zero twist is the identity: unzip_fold_general_twist(c, 0, 0)
\* and unzip_fold_pants_twist(c, 0) leave every adjacency list, every
\* branch endpoint and the measure unchanged, whichever way c turns.
C20_ZeroTwistIsIdentity ==
    (ZeroTwistReturned /\ ~tt.tied) =>
        /\ tt.gluing_list = pre.gluing_list
        /\ tt.branch_endpoint = pre.branch_endpoint
        /\ tt.measure = pre.measure

\* The signed branches at the two ends of the switch c.
BranchesAt(t, c) ==
    {outgoing_branches(t, c)[i] : i \in 1..Len(outgoing_branches(t, c))}
    \cup {outgoing_branches(t, -c)[i] : i \in 1..Len(outgoing_branches(t, -c))}

\* A call of unzip_fold_general_twist has completed, no unzip of it having
\* ended exactly between two branches.
GeneralTwistReturned == call.op = "unzip_fold_general_twist" /\ Decided(tt)

\* C25: a completed unzip_fold_general_twist(c, l, r) leaves the outgoing
\* list of every switch other than c and -c unchanged, leaves the measure
\* of every branch other than the pants branch of c unchanged, and leaves
\* the set of signed branches at the two ends of c unchanged.
C25_TwistFrame ==
    GeneralTwistReturned =>
        /\ \A sw \in Switches(pre) \ {call.args[1], -call.args[1]} :
              outgoing_branches(tt, sw) = outgoing_branches(pre, sw)
        /\ \A b \in 1..NumBranches(pre) :
              b # pants_branch_on_switch(pre, call.args[1]) =>
                  tt.measure[b] = pre.measure[b]
        /\ BranchesAt(tt, call.args[1]) = BranchesAt(pre, call.args[1])

----------------------------------------------------------------------------
(* Round trips: a call on a constructed structure, then the call that is   *)
(* to undo it.                                                             *)

InitRoundTrip ==
    /\ tt \in TwistStructures \cup GenusTwoStructures
    /\ pre = tt /\ orig = tt
    /\ call = NoCall /\ ncalls = 0 /\ loop = NoLoop
    /\ branch_map = NoMap /\ old_branch_map = NoMap

\* tt.unzip_fold_pants_twist(c, k)
TwistThere ==
    /\ ncalls = 0
    /\ \E pants_curve \in Switches(tt), power \in Twists :
          Returns("unzip_fold_pants_twist", <<pants_curve, power>>,
                  unzip_fold_pants_twist(tt, pants_curve, power), None)

\* ... followed by tt.unzip_fold_pants_twist(c, -k)
TwistBack ==
    /\ ncalls = 1 /\ tt.ok
    /\ call.op = "unzip_fold_pants_twist"
    /\ Returns("unzip_fold_pants_twist", <<call.args[1], -call.args[2]>>,
               unzip_fold_pants_twist(tt, call.args[1], -call.args[2]), None)

\* tt.unzip_fold_first_move(s)
FirstMove ==
    /\ ncalls = 0
    /\ \E switch \in Switches(tt) :
          Returns("unzip_fold_first_move", <<switch>>,
                  unzip_fold_first_move(tt, switch, FALSE, 0), None)

\* ... followed by tt.unzip_fold_first_move(s, inverse=True)
FirstMoveWithInverseFlag ==
    /\ ncalls = 1 /\ tt.ok
    /\ call.op = "unzip_fold_first_move"
    /\ Returns("unzip_fold_first_move(inverse=True)", call.args,
               unzip_fold_first_move(tt, call.args[1], TRUE, 0), None)

\* ... or followed by tt.unzip_fold_first_move_inverse(s)
FirstMoveInverse ==
    /\ ncalls = 1 /\ tt.ok
    /\ call.op = "unzip_fold_first_move"
    /\ Returns("unzip_fold_first_move_inverse", call.args,
               unzip_fold_first_move_inverse(tt, call.args[1]), None)

NextRoundTrip ==
    \/ TwistThere
    \/ TwistBack
    \/ FirstMove
    \/ FirstMoveWithInverseFlag
    \/ FirstMoveInverse

SpecRoundTrip == InitRoundTrip /\ [][NextRoundTrip]_vars

\* The second call of a round trip has completed, and no unzip of the trip
\* ended exactly between two branches.
CameBack(op) == ncalls = 2 /\ call.op = op /\ tt.ok /\ ~tt.tied

Restored == tt.gluing_list = orig.gluing_list /\ tt.measure = orig.measure

\* C3: unzip_fold_pants_twist(c, k) followed by unzip_fold_pants_twist(c, -k)
\* restores the adjacency lists and the measure, for every pants curve c of
\* either turning and every k, k = 0 included.
C3_TwistRoundTrip ==
    CameBack("unzip_fold_pants_twist") => Restored

\* C4: unzip_fold_first_move(s) followed by
\* unzip_fold_first_move(s, inverse=True) restores the adjacency lists and
\* the measure, in each local configuration.
C4_FirstMoveRoundTrip ==
    CameBack("unzip_fold_first_move(inverse=True)") => Restored

\* C5: unzip_fold_first_move(s) followed by unzip_fold_first_move_inverse(s)
\* restores the adjacency lists, the branch endpoints and the measure.
C5_FirstMoveInverseRestores ==
    CameBack("unzip_fold_first_move_inverse") =>
        Restored /\ tt.branch_endpoint = orig.branch_endpoint

\* A round trip came back whose first move took case H (unzip_pos = 1, two
\* twists and two folds left of the pants curve).
C5_Witness ==
    /\ CameBack("unzip_fold_first_move_inverse")
    /\ FirstMoveCaseOf(orig, call.args[1], FALSE, 0) = "H"
    /\ pre # orig
    /\ tt = orig

----------------------------------------------------------------------------
(* unzip_fold_general_twist, one pass of its "while True" at a time.       *)

\* The passes of one loop that are followed.
MaxIterations == 3

\* The call up to the loop (source lines 629-700): the structure after the
\* folds, and whether the loop is entered.
TwistEntry(t, pants_curve, twists_on_left, twists_on_right) ==
    Bind(TwistPlan(t, pants_curve, twists_on_left, twists_on_right), LAMBDA plan :
    IF ~plan.ok THEN [tt |-> Raise(t), enters |-> FALSE, plan |-> plan]
    ELSE
    Bind(TwistFolds(t, pants_curve, plan), LAMBDA t1 :
    [tt |-> t1,
     enters |-> t1.ok /\ ~(plan.good_twists_on_other_side > 0),
     plan |-> plan]))

InitLoop ==
    /\ tt \in TwistStructures \cup GenusTwoStructures
    /\ pre = tt /\ orig = tt
    /\ call = NoCall /\ ncalls = 0 /\ loop = NoLoop
    /\ branch_map = NoMap /\ old_branch_map = NoMap

\* tt.unzip_fold_general_twist(c, l, r) up to "while True".
TwistBegin ==
    /\ ncalls = 0 /\ ~loop.active
    /\ \E pants_curve \in Switches(tt), twists_on_left \in Twists,
          twists_on_right \in Twists :
          \E e \in {TwistEntry(tt, pants_curve, twists_on_left, twists_on_right)} :
             /\ tt' = e.tt
             /\ pre' = tt
             /\ call' = [op |-> "unzip_fold_general_twist",
                         args |-> <<pants_curve, twists_on_left, twists_on_right>>,
                         ret |-> None]
             /\ ncalls' = IF e.enters THEN 0 ELSE 1
             /\ loop' = IF e.enters
                        THEN [active |-> TRUE, switch |-> pants_curve,
                              turning |-> e.plan.turning,
                              nother_side |-> e.plan.nother_side,
                              good |-> e.plan.good_twists_on_other_side,
                              iterations |-> 0, pos |-> None, unzip_pos |-> None]
                        ELSE NoLoop
    /\ UNCHANGED <<orig, branch_map, old_branch_map>>

\* One pass through the body of "while True".
TwistPass ==
    /\ loop.active /\ loop.iterations < MaxIterations
    /\ \E it \in {TwistIteration(tt, loop.switch, loop.turning,
                                  loop.nother_side, loop.good)} :
          /\ tt' = it.tt
          /\ loop' = [loop EXCEPT !.active = ~it.done, !.good = it.good,
                                  !.iterations = @ + 1, !.pos = it.pos,
                                  !.unzip_pos = it.unzip_pos]
          /\ ncalls' = IF it.done THEN 1 ELSE 0
    /\ UNCHANGED <<pre, orig, call, branch_map, old_branch_map>>

NextLoop ==
    \/ TwistBegin
    \/ TwistPass

SpecLoop == InitLoop /\ [][NextLoop]_vars

\* C6: the loop of unzip_fold_general_twist terminates: every pass entered
\* with a negative counter good_twists_on_other_side leaves it strictly
\* smaller in magnitude and never positive, also when the other side has no
\* branch besides the pants branch.
C6_CounterStrictlyDecreases ==
    [][(/\ loop.active /\ loop.good < 0
        /\ loop'.iterations = loop.iterations + 1
        /\ Decided(tt'))
       => (Abs(loop'.good) < Abs(loop.good) /\ loop'.good <= 0)]_vars

\* The plan of the call of unzip_fold_general_twist that was started.
PlanOfCall == TwistPlan(pre, call.args[1], call.args[2], call.args[3])

\* C19: whenever good_twists_on_other_side is nonnegative, zero included,
\* unzip_fold_general_twist makes no call of unzip_with_collapse (the loop
\* is not entered) and ends with the structure that exactly that many folds
\* on the other side, with start_side = turning, produce.
C19_NonnegativeCounterOnlyFolds ==
    (/\ call.op = "unzip_fold_general_twist"
     /\ PlanOfCall.ok
     /\ PlanOfCall.good_twists_on_other_side >= 0) =>
        /\ loop = NoLoop
        /\ tt = FoldTimes(FoldTimes(pre, PlanOfCall.good_twists_on_fixed_side,
                                    -call.args[1], 1, 0, PlanOfCall.turning),
                          PlanOfCall.good_twists_on_other_side,
                          call.args[1], 1, 0, PlanOfCall.turning)

\* The twists asked for on the fixed side of the call that was started.
FixedSideRequest ==
    IF PlanOfCall.turning = RIGHT THEN call.args[3] ELSE -call.args[2]

\* The decomposition of the plan is the one of a floor division.
PlanArithmetic ==
    LET nleft == num_curves_on_sides(pre, call.args[1])[1]
        nright == num_curves_on_sides(pre, call.args[1])[2]
    IN  /\ PlanOfCall.good_twists_on_fixed_side \in 0..(PlanOfCall.nfixed_side - 1)
        /\ FixedSideRequest = PlanOfCall.good_twists_on_fixed_side
                                - PlanOfCall.num_rotations * PlanOfCall.nfixed_side
        /\ PlanOfCall.good_twists_on_other_side =
              IF PlanOfCall.turning = RIGHT
              THEN call.args[2] - PlanOfCall.num_rotations * nleft
              ELSE -(call.args[3] + PlanOfCall.num_rotations * nright)

\* C21: in unzip_fold_general_twist the residual on the fixed side lies in
\* [0, n_fixed - 1], the request equals residual - num_rotations * n_fixed,
\* the other side is reduced by num_rotations times its own branch count,
\* and at a switch where get_turning returns a side the computation does
\* not divide by zero.
C21_TwistDecomposition ==
    (/\ call.op = "unzip_fold_general_twist"
     /\ get_turning(pre, call.args[1]) # AssertFailed) =>
        /\ PlanOfCall.ok
        /\ PlanArithmetic

\* The call of unzip_fold_general_twist has completed, no unzip of it having
\* ended exactly between two branches.
TwistCompleted ==
    /\ call.op = "unzip_fold_general_twist"
    /\ ncalls = 1 /\ ~loop.active
    /\ Decided(tt)

\* The last unzip of the loop returned a position past the pants branch;
\* the loop ends with the pass in which that happens.
CutCrossedPantsBranch == loop.iterations > 0 /\ loop.unzip_pos > 0

\* C26: get_turning(c) after a completed unzip_fold_general_twist differs
\* from its value before the call exactly when a TWO_SIDED unzip of the
\* loop returned unzip_pos > 0; when every unzip landed in the pants
\* branch, or only folds were made, the turning is as before.
C26_TurningChangesExactlyWhenCrossed ==
    TwistCompleted =>
        (get_turning(tt, call.args[1]) # get_turning(pre, call.args[1])
            <=> CutCrossedPantsBranch)

----------------------------------------------------------------------------
(* BranchMap under append calls.                                           *)

\* The most append calls made on one BranchMap.
MaxAppends == 2

\* The constructor arguments tried (the second is the one of the doctests,
\* cut to three branches).
BranchInputs == {<<1, -2>>, <<2, -4, 5>>}

Tracked(bm) == DOMAIN bm

Signed(bm) == Tracked(bm) \cup {-b : b \in Tracked(bm)}

InitBranchMap ==
    /\ \E branches \in BranchInputs : branch_map = BranchMap(branches)
    /\ old_branch_map = branch_map
    /\ tt = NoTrack /\ pre = NoTrack /\ orig = NoTrack
    /\ call = NoCall /\ ncalls = 0 /\ loop = NoLoop

AppendCall ==
    /\ ncalls < MaxAppends
    /\ \E append_to \in Signed(branch_map), appended_branch \in Signed(branch_map) :
          /\ branch_map' = append(branch_map, append_to, appended_branch)
          /\ call' = [op |-> "append", args |-> <<append_to, appended_branch>>,
                      ret |-> None]
    /\ old_branch_map' = branch_map
    /\ ncalls' = ncalls + 1
    /\ UNCHANGED <<tt, pre, orig, loop>>

NextBranchMap == AppendCall

SpecBranchMap == InitBranchMap /\ [][NextBranchMap]_vars

\* C9: in every state reached from BranchMap(branches) by append calls,
\* branch_list(-b) is branch_list(b) reversed with every entry negated, for
\* every tracked branch b of either sign; before any append branch_list(b)
\* is [b] for b > 0.
C9_ReversalLaw ==
    /\ \A b \in Signed(branch_map) :
          branch_list(branch_map, -b) = ReverseNeg(branch_list(branch_map, b))
    /\ ncalls = 0 =>
          \A b \in Tracked(branch_map) : branch_list(branch_map, b) = <<b>>

\* Two appends were made and some list holds entries of both signs.
C9_Witness ==
    /\ ncalls >= 2
    /\ \E b \in Tracked(branch_map) :
          /\ Len(branch_list(branch_map, b)) >= 3
          /\ \E i, j \in 1..Len(branch_map[b]) :
                branch_map[b][i] > 0 /\ branch_map[b][j] < 0
          /\ branch_list(branch_map, -b) = ReverseNeg(branch_map[b])

\* C10: after append(t, o), for tracked t and o of either sign, also with
\* |t| = |o|, branch_list(t) is the old branch_list(t) followed by the old
\* branch_list(o), and the list of every branch other than |t| is as before.
C10_AppendIsSignedConcatenation ==
    call.op = "append" =>
        LET t == call.args[1]
            o == call.args[2]
        IN  /\ branch_list(branch_map, t) =
                  branch_list(old_branch_map, t) \o branch_list(old_branch_map, o)
            /\ \A b \in Tracked(branch_map) :
                  b # Abs(t) => branch_map[b] = old_branch_map[b]
            /\ Tracked(branch_map) = Tracked(old_branch_map)

\* An append of a negative branch to itself (t = o < 0: the slice assignment
\* is handed the list it changes), on a list that had several entries.
C10_Witness ==
    /\ call.op = "append"
    /\ call.args[1] < 0
    /\ call.args[2] = call.args[1]
    /\ Len(old_branch_map[Abs(call.args[1])]) >= 2
    /\ Len(branch_map[Abs(call.args[1])]) = 2 * Len(old_branch_map[Abs(call.args[1])])

----------------------------------------------------------------------------
(* Queries: the turning, the pants branch and the type of the elementary   *)
(* move of a switch, asked on a constructed structure or after one fold,   *)
(* and the first elementary move started on the switch.                    *)

\* The constructed structures in which all branches beside the pants curves
\* carry the same weight, and the ones without measure.
QueryStructures ==
    {t \in TwistStructures \cup GenusTwoStructures :
        \A b \in 1..NumBranches(t) :
            t.measure[b] \in {t.measure[1], t.measure[NumBranches(t)]}}
    \cup UnmeasuredStructures

InitQuery ==
    /\ tt \in QueryStructures
    /\ pre = tt /\ orig = tt
    /\ call = NoCall /\ ncalls = 0 /\ loop = NoLoop
    /\ branch_map = NoMap /\ old_branch_map = NoMap

\* Nothing has been asked yet.
CanAsk == tt.ok /\ call.op \in {NoCall.op, "fold"}

\* A query returns ret and leaves the structure alone.
Asks(op, args, ret) ==
    /\ tt' = tt
    /\ pre' = tt
    /\ call' = [op |-> op, args |-> args, ret |-> ret]
    /\ UNCHANGED <<ncalls, orig, loop, branch_map, old_branch_map>>

\* tt.fold(...) on a constructed structure
Rearrange == ncalls = 0 /\ call = NoCall /\ Fold

\* tt.get_turning(s)
GetTurning ==
    /\ CanAsk
    /\ \E switch \in Switches(tt) :
          Asks("get_turning", <<switch>>, get_turning(tt, switch))

\* tt.pants_branch_on_switch(s)
PantsBranchOnSwitch ==
    /\ CanAsk
    /\ \E switch \in Switches(tt) :
          Asks("pants_branch_on_switch", <<switch>>,
               pants_branch_on_switch(tt, switch))

\* tt.elem_move_type(c)
ElemMoveType ==
    /\ CanAsk
    /\ \E pants_curve \in Switches(tt) :
          Asks("elem_move_type", <<pants_curve>>,
               elem_move_type(tt, pants_curve))

\* tt.torus_boundary_switch(s)
TorusBoundarySwitch ==
    /\ CanAsk
    /\ \E switch \in Switches(tt) :
          Asks("torus_boundary_switch", <<switch>>,
               torus_boundary_switch(tt, switch))

\* tt.orientation_of_switch_first_move(s)
OrientationOfSwitchFirstMove ==
    /\ CanAsk
    /\ \E switch \in Switches(tt) :
          Asks("orientation_of_switch_first_move", <<switch>>,
               orientation_of_switch_first_move(tt, switch))

\* tt.unzip_fold_first_move(s)
StartFirstMove ==
    /\ CanAsk /\ is_measured(tt)
    /\ \E switch \in Switches(tt) :
          Returns("unzip_fold_first_move", <<switch>>,
                  unzip_fold_first_move(tt, switch, FALSE, 0), None)

\* tt.unzip_fold_first_move_inverse(s)
StartFirstMoveInverse ==
    /\ CanAsk /\ is_measured(tt)
    /\ \E switch \in Switches(tt) :
          Returns("unzip_fold_first_move_inverse", <<switch>>,
                  unzip_fold_first_move_inverse(tt, switch), None)

NextQuery ==
    \/ Rearrange
    \/ GetTurning
    \/ PantsBranchOnSwitch
    \/ ElemMoveType
    \/ TorusBoundarySwitch
    \/ OrientationOfSwitchFirstMove
    \/ StartFirstMove
    \/ StartFirstMoveInverse

SpecQuery == InitQuery /\ [][NextQuery]_vars

\* The switch a query was asked about.
Asked(op) == call.op = op

\* C15: the turning and the pants branch of a switch do not depend on its
\* orientation, and where they are defined the pants branch is the first
\* outgoing branch counted from the side the switch turns to, without sign.
C15_TurningIgnoresOrientation ==
    /\ Asked("get_turning") =>
          call.ret = get_turning(tt, -call.args[1])
    /\ Asked("pants_branch_on_switch") =>
          /\ call.ret = pants_branch_on_switch(tt, -call.args[1])
          /\ get_turning(tt, call.args[1]) # AssertFailed =>
                call.ret = Abs(outgoing_branch(tt, call.args[1], 0,
                                               get_turning(tt, call.args[1])))

\* The pants branch was asked at the negative end of a switch that turns
\* RIGHT, in a structure changed by a fold.
C15_Witness ==
    /\ Asked("pants_branch_on_switch")
    /\ ncalls = 1
    /\ call.args[1] < 0
    /\ get_turning(tt, call.args[1]) = RIGHT
    /\ call.ret > 0

\* Some outgoing branch of c and some outgoing branch of -c end at the same
\* signed switch, which is neither c nor -c.
SharedNeighbour(t, c) ==
    \E sw \in Switches(t) \ {c, -c} :
        /\ \E i \in 1..Len(outgoing_branches(t, c)) :
              branch_endpoint(t, outgoing_branches(t, c)[i]) = sw
        /\ \E j \in 1..Len(outgoing_branches(t, -c)) :
              branch_endpoint(t, outgoing_branches(t, -c)[j]) = sw

\* C16: elem_move_type(c) is 1 exactly when a branch leaving c and a branch
\* leaving -c end at the same signed switch other than c and -c, and 2
\* otherwise; it is the same for c and -c and changes nothing.
C16_ElemMoveType ==
    Asked("elem_move_type") =>
        /\ call.ret = IF SharedNeighbour(pre, call.args[1]) THEN 1 ELSE 2
        /\ call.ret = elem_move_type(pre, -call.args[1])
        /\ tt = pre

\* The type 2 was returned for a curve that has a branch leaving each end
\* and coming back to the curve at the same signed switch.
C16_Witness ==
    /\ Asked("elem_move_type")
    /\ call.ret = 2
    /\ \E sw \in {call.args[1], -call.args[1]} :
          /\ \E i \in 1..Len(outgoing_branches(pre, call.args[1])) :
                branch_endpoint(pre, outgoing_branches(pre, call.args[1])[i]) = sw
          /\ \E j \in 1..Len(outgoing_branches(pre, -call.args[1])) :
                branch_endpoint(pre, outgoing_branches(pre, -call.args[1])[j]) = sw

\* The operations that begin by asserting that the move at the switch is
\* the first elementary move.
FirstMoveQueries == {"torus_boundary_switch", "orientation_of_switch_first_move"}

FirstMoveCalls == {"unzip_fold_first_move", "unzip_fold_first_move_inverse"}

\* One of them was started on a switch whose elementary move has type 2.
StartedOnTypeTwo ==
    /\ call.op \in FirstMoveQueries \cup FirstMoveCalls
    /\ elem_move_type(pre, call.args[1]) = 2

\* C17: torus_boundary_switch, orientation_of_switch_first_move,
\* unzip_fold_first_move and unzip_fold_first_move_inverse, started on a
\* switch of elem_move_type 2, end in an assertion failure and leave every
\* adjacency list, branch endpoint and measure as it was.
C17_TypeTwoIsRejected ==
    StartedOnTypeTwo =>
        /\ tt.gluing_list = pre.gluing_list
        /\ tt.branch_endpoint = pre.branch_endpoint
        /\ tt.measure = pre.measure
        /\ call.op \in FirstMoveQueries => call.ret = NoSwitch
        /\ call.op \in FirstMoveCalls => ~tt.ok /\ ~tt.hung

\* The inverse of the first move was started on a switch of type 2 whose
\* branches reach other switches.
C17_Witness ==
    /\ StartedOnTypeTwo
    /\ call.op = "unzip_fold_first_move_inverse"
    /\ \E i \in 1..Len(outgoing_branches(pre, call.args[1])) :
          Abs(branch_endpoint(pre, outgoing_branches(pre, call.args[1])[i]))
              # Abs(call.args[1])
    /\ ~tt.ok

\* C18: get_turning(s) and pants_branch_on_switch(s) fail with an assertion
\* exactly when the first outgoing branches of s and -s are opposite on
\* neither side; when they are opposite on both sides get_turning(s) is LEFT.
C18_TurningFailsExactlyWithoutMatch ==
    /\ Asked("get_turning") =>
          /\ call.ret = AssertFailed <=>
                 ~\E side \in {LEFT, RIGHT} :
                     outgoing_branch(tt, call.args[1], 0, side)
                         = -outgoing_branch(tt, -call.args[1], 0, side)
          /\ (\A side \in {LEFT, RIGHT} :
                 outgoing_branch(tt, call.args[1], 0, side)
                     = -outgoing_branch(tt, -call.args[1], 0, side))
                => call.ret = LEFT
    /\ Asked("pants_branch_on_switch") =>
          (call.ret \notin 1..NumBranches(tt) <=>
              ~\E side \in {LEFT, RIGHT} :
                  outgoing_branch(tt, call.args[1], 0, side)
                      = -outgoing_branch(tt, -call.args[1], 0, side))

\* The turning was asked at a switch where both sides match although the
\* branches at the two sides differ.
C18_Witness ==
    /\ Asked("get_turning")
    /\ call.ret = LEFT
    /\ outgoing_branch(tt, call.args[1], 0, RIGHT)
          = -outgoing_branch(tt, -call.args[1], 0, RIGHT)
    /\ outgoing_branch(tt, call.args[1], 0, RIGHT)
          # outgoing_branch(tt, call.args[1], 0, LEFT)

\* The switch asked about has an elementary move of type 1, in a structure
\* where every signed branch has its place and every switch a turning.
AskedOnTypeOne ==
    /\ call.op \in FirstMoveQueries
    /\ Mirrored(pre) /\ NormalForm(pre)
    /\ elem_move_type(pre, call.args[1]) = 1

\* C32: for a switch s of type 1 in a normal-form structure,
\* orientation_of_switch_first_move(s) is s or -s and is the same for s and
\* -s, and torus_boundary_switch(s) is a switch other than s and -s, at the
\* same vertex for s and -s.
C32_FirstMoveSwitchesAreCanonical ==
    AskedOnTypeOne =>
        /\ Asked("orientation_of_switch_first_move") =>
              /\ call.ret \in {call.args[1], -call.args[1]}
              /\ call.ret = orientation_of_switch_first_move(pre, -call.args[1])
        /\ Asked("torus_boundary_switch") =>
              /\ call.ret # NoSwitch
              /\ Abs(call.ret) # Abs(call.args[1])
              /\ Abs(call.ret) = Abs(torus_boundary_switch(pre, -call.args[1]))

----------------------------------------------------------------------------
(* Re-threading: one call of unzip_with_collapse_no_measure on a           *)
(* constructed structure; the measure plays no part in it.                 *)

\* The gluing lists of the constructed structures, without measure.
RethreadStructures ==
    {TrainTrack(gl, 7, << >>, FALSE) : gl \in {LeftTurningGluing, RightTurningGluing}}
    \cup {TrainTrack(OneSidedGluing, 2, << >>, FALSE)}
    \cup {TrainTrack(gl, 9, << >>, FALSE) : gl \in {Lambda23Gluing, Lambda11Gluing}}

InitRethread ==
    /\ tt \in RethreadStructures
    /\ pre = tt /\ orig = tt
    /\ call = NoCall /\ ncalls = 0 /\ loop = NoLoop
    /\ branch_map = NoMap /\ old_branch_map = NoMap

\* tt.unzip_with_collapse_no_measure(s, pos, unzip_pos, collapse_type,
\*                                   start_side=start_side)
Rethread == ncalls = 0 /\ UnzipWithCollapseNoMeasure

NextRethread == Rethread

SpecRethread == InitRethread /\ [][NextRethread]_vars

\* The arguments of the call of unzip_with_collapse_no_measure.
RethreadSwitch == call.args[1]

RethreadPos == call.args[2]

RethreadUnzipPos == call.args[3]

RethreadSide == call.args[5]

Rethreaded(collapse_type) ==
    /\ call.op = "unzip_with_collapse_no_measure"
    /\ call.args[4] = collapse_type
    /\ tt.ok

\* u: the branch at position unzip_pos of -s counted from the side opposite
\* start_side, before the call.
UnzipBranchBefore ==
    outgoing_branch(pre, -RethreadSwitch, RethreadUnzipPos, OtherSide(RethreadSide))

\* c: the branch at position 0 of s counted from start_side, before the call.
FirstBranchBefore == outgoing_branch(pre, RethreadSwitch, 0, RethreadSide)

\* The branches at positions 0..unzip_pos-1 of -s counted from the side
\* opposite start_side, before the call, in list order.
MigratedBefore ==
    LET b == outgoing_branches(pre, -RethreadSwitch)
    IN  IF RethreadSide = LEFT THEN Drop(b, Len(b) - RethreadUnzipPos)
        ELSE Take(b, RethreadUnzipPos)

\* run occupies the places i, i+1, ... of l.
RunAt(l, run, i) ==
    /\ i >= 1 /\ i + Len(run) - 1 <= Len(l)
    /\ \A j \in 1..Len(run) : l[i + j - 1] = run[j]

\* In l, x comes immediately before y.
Precedes(l, x, y) == \E i \in 1..(Len(l) - 1) : l[i] = x /\ l[i + 1] = y

\* In l, run sits immediately after x (side LEFT) or immediately before x.
RunBeside(l, run, x, side) ==
    \E i \in 1..Len(l) :
        /\ l[i] = x
        /\ IF side = LEFT THEN RunAt(l, run, i + 1)
           ELSE RunAt(l, run, i - Len(run))

\* C22: after a completed UP unzip with u the unzip branch and c the branch
\* formerly first on start_side of s: c is in the list of the endpoint of u
\* immediately before -u (LEFT) or after -u (RIGHT); the branches formerly
\* at positions 0..k-1 of -s are in the list of the endpoint of c, in their
\* order, immediately after -c (LEFT) or before -c (RIGHT); u stays in the
\* list of -s; -c ends at the endpoint of u and the mirror of every
\* migrated branch at the endpoint of c.  Loops at s or -s are included.
C22_UpRethreading ==
    Rethreaded(UP) =>
        LET u == UnzipBranchBefore
            c == FirstBranchBefore
            bottom_switch == branch_endpoint(pre, u)
            top_switch == branch_endpoint(pre, c)
        IN  /\ IF RethreadSide = LEFT
               THEN Precedes(outgoing_branches(tt, bottom_switch), c, -u)
               ELSE Precedes(outgoing_branches(tt, bottom_switch), -u, c)
            /\ RunBeside(outgoing_branches(tt, top_switch), MigratedBefore, -c,
                         RethreadSide)
            /\ IndexOf(outgoing_branches(tt, -RethreadSwitch), u) # -1
            /\ branch_endpoint(tt, -c) = bottom_switch
            /\ \A j \in 1..Len(MigratedBefore) :
                  branch_endpoint(tt, -MigratedBefore[j]) = top_switch

\* The other lists and every endpoint are as before the call.
OnlyListOfSwitchChanged ==
    /\ \A sw \in Switches(pre) \ {RethreadSwitch} :
          outgoing_branches(tt, sw) = outgoing_branches(pre, sw)
    /\ tt.branch_endpoint = pre.branch_endpoint

\* C23: a TWO_SIDED unzip that lands in the pants branch (unzip_pos = 0,
\* 0 <= pos < len(outgoing_branches(s)) - 1) changes only the list of s:
\* the pants branch keeps its end, the pos+1 branches at the start_side end
\* move, in order, next to the pants branch, and the other branches close
\* up; the list of -s, every other list and every endpoint stay.
C23_TwoSidedLandingInPantsBranch ==
    (/\ Rethreaded(TWO_SIDED)
     /\ RethreadUnzipPos = 0
     /\ RethreadPos < Len(outgoing_branches(pre, RethreadSwitch)) - 1) =>
        LET top == outgoing_branches(pre, RethreadSwitch)
            n == Len(top)
            k == RethreadPos + 1
        IN  /\ outgoing_branches(tt, RethreadSwitch) =
                  IF RethreadSide = LEFT
                  THEN SubSeq(top, k + 1, n - 1) \o SubSeq(top, 1, k) \o <<top[n]>>
                  ELSE <<top[1]>> \o SubSeq(top, n - k + 1, n) \o SubSeq(top, 2, n - k)
            /\ OnlyListOfSwitchChanged

\* Two branches were moved past a third one.
C23_Witness ==
    /\ Rethreaded(TWO_SIDED)
    /\ RethreadUnzipPos = 0
    /\ RethreadPos = 1
    /\ Len(outgoing_branches(pre, RethreadSwitch)) >= 4
    /\ tt.gluing_list # pre.gluing_list

\* p: the pants branch as it leaves s, before the call.
PantsBranchBefore ==
    outgoing_branch(pre, RethreadSwitch, 0, OtherSide(RethreadSide))

\* In l, x and y are neighbours.
Adjacent(l, x, y) == Precedes(l, x, y) \/ Precedes(l, y, x)

\* C24: after a TWO_SIDED unzip that crosses the pants branch (unzip_pos =
\* k > 0, with pos in the range of the non-pants branches of s) the pants
\* branch p has left the list of s, which is shorter by one; p is at
\* position 0 on start_side of -s and the unzip branch u at position 0 on
\* the other side of -s, whose list keeps its length; -p is in the list of
\* the endpoint of u next to -u; p ends at that switch and -p at -s.
C24_TwoSidedCrossingPantsBranch ==
    (/\ Rethreaded(TWO_SIDED) /\ RethreadUnzipPos > 0
     /\ RethreadPos < Len(outgoing_branches(pre, RethreadSwitch)) - 1) =>
        LET p == PantsBranchBefore
            u == UnzipBranchBefore
            bottom_switch == branch_endpoint(pre, u)
        IN  /\ IndexOf(outgoing_branches(tt, RethreadSwitch), p) = -1
            /\ Len(outgoing_branches(tt, RethreadSwitch))
                  = Len(outgoing_branches(pre, RethreadSwitch)) - 1
            /\ outgoing_branch(tt, -RethreadSwitch, 0, RethreadSide) = p
            /\ outgoing_branch(tt, -RethreadSwitch, 0, OtherSide(RethreadSide)) = u
            /\ Len(outgoing_branches(tt, -RethreadSwitch))
                  = Len(outgoing_branches(pre, -RethreadSwitch))
            /\ Adjacent(outgoing_branches(tt, bottom_switch), -p, -u)
            /\ branch_endpoint(tt, p) = bottom_switch
            /\ branch_endpoint(tt, -p) = -RethreadSwitch

\* How many entries the list of sw gains when -p is inserted at the endpoint
\* of the unzip branch.
GainAt(sw) == IF branch_endpoint(pre, UnzipBranchBefore) = sw THEN 1 ELSE 0

\* C24, amended: for 0 <= pos < len(outgoing_branches(s)) - 1 the pants
\* branch p has left the list of s, p is at position 0 on start_side of -s
\* and u at position 0 on the other side, -p is next to -u in the list of
\* the endpoint of u, p ends there and -p at -s; the list of s is shorter
\* by one and the list of -s as long as before, except that the list which
\* receives -p (when u ends at s or at -s) is longer by one than that.
C24_TwoSidedCrossingWithLoops ==
    (/\ Rethreaded(TWO_SIDED) /\ RethreadUnzipPos > 0
     /\ RethreadPos < Len(outgoing_branches(pre, RethreadSwitch)) - 1) =>
        LET p == PantsBranchBefore
            u == UnzipBranchBefore
            bottom_switch == branch_endpoint(pre, u)
        IN  /\ IndexOf(outgoing_branches(tt, RethreadSwitch), p) = -1
            /\ Len(outgoing_branches(tt, RethreadSwitch))
                  = Len(outgoing_branches(pre, RethreadSwitch)) - 1
                    + GainAt(RethreadSwitch)
            /\ outgoing_branch(tt, -RethreadSwitch, 0, RethreadSide) = p
            /\ outgoing_branch(tt, -RethreadSwitch, 0, OtherSide(RethreadSide)) = u
            /\ Len(outgoing_branches(tt, -RethreadSwitch))
                  = Len(outgoing_branches(pre, -RethreadSwitch))
                    + GainAt(-RethreadSwitch)
            /\ Adjacent(outgoing_branches(tt, bottom_switch), -p, -u)
            /\ branch_endpoint(tt, p) = bottom_switch
            /\ branch_endpoint(tt, -p) = -RethreadSwitch

\* The cut crossed the pants branch and ended in a loop at -s.
C24_Witness ==
    /\ Rethreaded(TWO_SIDED) /\ RethreadUnzipPos > 0
    /\ RethreadPos < Len(outgoing_branches(pre, RethreadSwitch)) - 1
    /\ GainAt(-RethreadSwitch) = 1
    /\ IndexOf(outgoing_branches(tt, -RethreadSwitch), -PantsBranchBefore) # -1

----------------------------------------------------------------------------
(* The first elementary move, forward and with inverse=True, made up to    *)
(* MaxMoves times in a row on the genus two structures.                    *)

MaxMoves == 2

InitMove ==
    /\ tt \in GenusTwoStructures
    /\ pre = tt /\ orig = tt
    /\ call = NoCall /\ ncalls = 0 /\ loop = NoLoop
    /\ branch_map = NoMap /\ old_branch_map = NoMap

CanMove == tt.ok /\ ncalls < MaxMoves

\* tt.unzip_fold_first_move(s)
MoveForward ==
    /\ CanMove
    /\ \E switch \in Switches(tt) :
          Returns("unzip_fold_first_move", <<switch, FALSE>>,
                  unzip_fold_first_move(tt, switch, FALSE, 0), None)

\* tt.unzip_fold_first_move(s, inverse=True)
MoveInverse ==
    /\ CanMove
    /\ \E switch \in Switches(tt) :
          Returns("unzip_fold_first_move", <<switch, TRUE>>,
                  unzip_fold_first_move(tt, switch, TRUE, 0), None)

NextMove ==
    \/ MoveForward
    \/ MoveInverse

SpecMove == InitMove /\ [][NextMove]_vars

MoveSwitch == call.args[1]

MoveIsInverse == call.args[2]

\* The case the last call of unzip_fold_first_move ran.
MoveCase == FirstMoveCaseOf(pre, MoveSwitch, MoveIsInverse, 0)

CaseLetters == {"A", "B", "C", "D", "E", "F", "G", "H"}

MoveReturned == call.op = "unzip_fold_first_move"

\* The switch the call works at (line 974).
MoveOriented == orientation_of_switch_first_move(pre, MoveSwitch)

\* The call got as far as its UP unzip (lines 974-977 raised nothing).
MoveReachedUnzip ==
    /\ MoveReturned
    /\ MoveOriented # NoSwitch
    /\ get_turning(pre, MoveOriented) # AssertFailed
    /\ torus_boundary_switch(pre, MoveOriented) # NoSwitch

\* The UP unzip of lines 996-997: the structure it leaves and what it
\* returns.
MoveUnzip ==
    unzip_with_collapse(pre, MoveOriented, 0, UP,
                        OtherSide(get_turning(pre, MoveOriented)), 0)

\* The call was made on a measured, balanced structure at a switch of
\* type 1, and its UP unzip did not end exactly between two branches.
MoveOnTypeOne ==
    /\ MoveReachedUnzip
    /\ is_measured(pre) /\ Balanced(pre)
    /\ elem_move_type(pre, MoveSwitch) = 1
    /\ ~MoveUnzip.tt.tied

MoveCompletedFromNormalForm ==
    /\ MoveReturned
    /\ is_measured(pre) /\ Mirrored(pre)
    /\ NormalForm(pre) /\ Balanced(pre)
    /\ Decided(tt)

\* C28: if get_turning is defined at every switch and the measure is
\* balanced before, then after a completed unzip_fold_first_move(s), forward
\* or with inverse=True, get_turning is defined at every switch (at s and
\* at the torus boundary switch among them) and every switch is balanced.
C28_FirstMoveKeepsNormalForm ==
    MoveCompletedFromNormalForm =>
        /\ NormalForm(tt)
        /\ Balanced(tt)

----------------------------------------------------------------------------
(* fold_left_of_pants_curve on its own, at every switch and index pair.    *)

InitFoldLeft ==
    /\ tt \in TwistStructures \cup GenusTwoStructures
    /\ pre = tt /\ orig = tt
    /\ call = NoCall /\ ncalls = 0 /\ loop = NoLoop
    /\ branch_map = NoMap /\ old_branch_map = NoMap

\* The indices tried at a switch: every position of its two lists, and one
\* more.
FoldIndices(t, switch) ==
    0..(Len(outgoing_branches(t, switch)) + Len(outgoing_branches(t, -switch)))

\* tt.fold_left_of_pants_curve(bdy_switch, i, j, inverse)
FoldLeftOfPantsCurve ==
    /\ ncalls = 0
    /\ \E bdy_switch \in Switches(tt), inverse \in BOOLEAN :
       \E i \in FoldIndices(tt, bdy_switch), j \in FoldIndices(tt, bdy_switch) :
          Returns("fold_left_of_pants_curve", <<bdy_switch, i, j, inverse>>,
                  fold_left_of_pants_curve(tt, bdy_switch, i, j, inverse), None)

NextFoldLeft == FoldLeftOfPantsCurve

SpecFoldLeft == InitFoldLeft /\ [][NextFoldLeft]_vars

FoldLeftCalled == call.op = "fold_left_of_pants_curve"

\* What the last call handed to fold.
FoldLeftHanded ==
    FoldLeftRequest(pre, call.args[1], call.args[2], call.args[3], call.args[4])

\* The branches on the left of the pants curve at bdy_switch, the pants
\* branch left out, from LEFT to RIGHT.
LeftOfPantsCurve(t, bdy_switch) ==
    IF get_turning(t, bdy_switch) = RIGHT
    THEN Take(outgoing_branches(t, bdy_switch),
              Len(outgoing_branches(t, bdy_switch)) - 1)
    ELSE Drop(outgoing_branches(t, -bdy_switch), 1)

\* The i-th of them, counted from start_side.
NthLeftOfPantsCurve(t, bdy_switch, i, start_side) ==
    LET l == LeftOfPantsCurve(t, bdy_switch)
    IN  IF start_side = LEFT THEN l[i + 1] ELSE l[Len(l) - i]

\* The call was made at a switch with a turning, with both indices among
\* those of the branches on the left of the pants curve.
FoldLeftInRange ==
    /\ FoldLeftCalled
    /\ get_turning(pre, call.args[1]) # AssertFailed
    /\ call.args[2] < Len(LeftOfPantsCurve(pre, call.args[1]))
    /\ call.args[3] < Len(LeftOfPantsCurve(pre, call.args[1]))

\* The signed branch at a position of what was handed to fold.
HandedBranch(index) ==
    outgoing_branch(pre, FoldLeftHanded.switch, index, FoldLeftHanded.start_side)

\* The sides the indices of the last call may be counted from: LEFT (from
\* bottom to top) and, with inverse=True, also RIGHT, the side fold is then
\* told to count from.
CountingSides == IF call.args[4] THEN {LEFT, RIGHT} ELSE {LEFT}

\* C29: for either turning of bdy_switch, for inverse False and True and
\* every in-range pair (i, j), the branches fold_left_of_pants_curve hands
\* to fold are the i-th and the j-th branch on the left of the pants curve,
\* the pants branch not counted; the pants branch is neither of them.
C29_FoldLeftSkipsPantsBranch ==
    FoldLeftInRange =>
        /\ \E side \in CountingSides :
              /\ HandedBranch(FoldLeftHanded.folded_branch_index)
                    = NthLeftOfPantsCurve(pre, call.args[1], call.args[2], side)
              /\ HandedBranch(FoldLeftHanded.fold_onto_index)
                    = NthLeftOfPantsCurve(pre, call.args[1], call.args[3], side)
        /\ \A index \in {FoldLeftHanded.folded_branch_index,
                          FoldLeftHanded.fold_onto_index} :
              Abs(HandedBranch(index)) # pants_branch_on_switch(pre, call.args[1])

----------------------------------------------------------------------------
(* Unzips with a BranchMap supplied: one unzip, then another on what the   *)
(* first left, so that the records the second one appends are not the      *)
(* initial ones.                                                           *)

\* BranchMap(range(1, n+1))
AllBranches(t) == [i \in 1..NumBranches(t) |-> i]

InitTracked ==
    /\ tt \in RethreadStructures
    /\ pre = tt /\ orig = tt
    /\ call = NoCall /\ ncalls = 0 /\ loop = NoLoop
    /\ branch_map = BranchMap(AllBranches(tt))
    /\ old_branch_map = branch_map

\* tt.unzip_with_collapse_no_measure(switch, pos, unzip_pos, collapse_type,
\*                                   branch_map, start_side)
TrackedUnzipCall ==
    \E switch \in Switches(tt), collapse_type \in {UP, TWO_SIDED},
       start_side \in {LEFT, RIGHT} :
       \E pos \in Positions(tt, switch), unzip_pos_ \in Positions(tt, -switch) :
          /\ tt' = unzip_with_collapse_no_measure(tt, switch, pos, unzip_pos_,
                                                  collapse_type, start_side)
          /\ branch_map' = unzip_branch_map(tt, branch_map, switch, pos, unzip_pos_,
                                            collapse_type, start_side)
          /\ call' = [op |-> "unzip_with_collapse_no_measure",
                      args |-> <<switch, pos, unzip_pos_, collapse_type, start_side>>,
                      ret |-> None]
          /\ pre' = tt
          /\ old_branch_map' = branch_map
          /\ ncalls' = ncalls + 1
          /\ UNCHANGED <<orig, loop>>

TrackedUnzip == ncalls = 0 /\ TrackedUnzipCall

\* ... followed by a second unzip with the same branch_map.
TrackedUnzipAgain == ncalls = 1 /\ tt.ok /\ TrackedUnzipCall

NextTracked ==
    \/ TrackedUnzip
    \/ TrackedUnzipAgain

SpecTracked == InitTracked /\ [][NextTracked]_vars

\* bm after append(-x, c) for every x of migrated, in their order, each
\* append reading the record c has in old.
RECURSIVE AppendedFrom(_, _, _, _)
AppendedFrom(bm, migrated, c, old) ==
    IF Len(migrated) = 0 THEN bm
    ELSE AppendedFrom(
             IF Head(migrated) < 0
             THEN [bm EXCEPT ![-Head(migrated)] = @ \o branch_list(old, c)]
             ELSE [bm EXCEPT ![Head(migrated)] = branch_list(old, -c) \o @],
             Tail(migrated), c, old)

\* The records after an UP unzip: append(-x, c) for every branch x formerly
\* at positions 0..unzip_pos-1 of -s, with the record c had before the
\* call, then append(-c, u); every other record as it was.
RecordsAfterUp ==
    append(AppendedFrom(old_branch_map, MigratedBefore, FirstBranchBefore,
                        old_branch_map),
           -FirstBranchBefore, UnzipBranchBefore)

\* C30: with a branch_map supplied, an UP unzip performs append(-x, c) for
\* every migrated branch x, c being the collapsed branch with the record it
\* had before this unzip, then append(-c, u) with u the unzip branch; the
\* records of all other branches are unchanged, and a TWO_SIDED unzip
\* changes no record.
C30_UpUnzipUpdatesBranchMap ==
    /\ (Rethreaded(UP) /\ Mirrored(pre)) => branch_map = RecordsAfterUp
    /\ Rethreaded(TWO_SIDED) => branch_map = old_branch_map

\* The last call of unzip_with_collapse_no_measure was made against one of
\* the requirements its assertions state (lines 438-443 and 476): UP with
\* pos # 0, UP with the collapsed branch the mirror of the unzip branch,
\* TWO_SIDED without the pants branch at the end opposite start_side.
UnzipRequirementBroken ==
    /\ call.op = "unzip_with_collapse_no_measure"
    /\ Mirrored(pre)
    /\ \/ call.args[4] = UP /\ RethreadPos # 0
       \/ call.args[4] = UP /\ FirstBranchBefore = -UnzipBranchBefore
       \/ call.args[4] = TWO_SIDED
            /\ ~PantsBranchAtEnd(pre, RethreadSwitch, RethreadSide)

\* C31: a call of unzip_with_collapse_no_measure that fails one of its
\* assertions has changed no adjacency list, endpoint, measure or record of
\* the branch map: the assertions come before the first mutation.
C31_FailedUnzipChangesNothing ==
    UnzipRequirementBroken =>
        /\ ~tt.ok
        /\ tt.gluing_list = pre.gluing_list
        /\ tt.branch_endpoint = pre.branch_endpoint
        /\ tt.measure = pre.measure
        /\ branch_map = old_branch_map

----------------------------------------------------------------------------
(* Sequences of rewrites of a measured structure: unzip_with_collapse,     *)
(* unzip_fold_general_twist and unzip_fold_first_move, in any order.       *)

MaxSequence == 2

InitSequence ==
    /\ tt \in GenusTwoStructures
    /\ pre = tt /\ orig = tt
    /\ call = NoCall /\ ncalls = 0 /\ loop = NoLoop
    /\ branch_map = NoMap /\ old_branch_map = NoMap

CanContinue == tt.ok /\ ncalls < MaxSequence

ThenUnzipWithCollapse ==
    /\ CanContinue
    /\ \E switch \in Switches(tt), collapse_type \in {UP, TWO_SIDED},
          start_side \in {LEFT, RIGHT} :
          \E pos \in Positions(tt, switch) :
             LET r == unzip_with_collapse(tt, switch, pos, collapse_type,
                                          start_side, 0)
             IN  Returns("unzip_with_collapse",
                         <<switch, pos, collapse_type, start_side, 0>>,
                         r.tt, r.ret)

ThenGeneralTwist ==
    /\ CanContinue
    /\ \E pants_curve \in Switches(tt), twists_on_left \in Twists,
          twists_on_right \in Twists :
          Returns("unzip_fold_general_twist",
                  <<pants_curve, twists_on_left, twists_on_right>>,
                  unzip_fold_general_twist(tt, pants_curve, twists_on_left,
                                           twists_on_right),
                  None)

ThenFirstMove ==
    /\ CanContinue
    /\ \E switch \in Switches(tt), inverse \in BOOLEAN :
          Returns("unzip_fold_first_move", <<switch, inverse>>,
                  unzip_fold_first_move(tt, switch, inverse, 0), None)

NextSequence ==
    \/ ThenUnzipWithCollapse
    \/ ThenGeneralTwist
    \/ ThenFirstMove

SpecSequence == InitSequence /\ [][NextSequence]_vars

NonNegative(t) == \A i \in 1..Len(t.measure) : t.measure[i] >= 0

\* The two weights the last unzip_with_collapse call transported.
TransportedWeights ==
    unzip_pos(pre, call.args[1], call.args[2], call.args[4])

\* C33: starting from a balanced measured structure with all measures
\* >= 0, after any sequence of completed unzip_with_collapse,
\* unzip_fold_general_twist and unzip_fold_first_move calls every branch
\* measure is >= 0, and the two weights an unzip_with_collapse call
\* transports (meas1, meas2) are >= 0.
C33_MeasuresStayNonnegative ==
    /\ Balanced(orig) /\ NonNegative(orig)
    /\ tt.ok => NonNegative(tt)
    /\ (tt.ok /\ call.op = "unzip_with_collapse") =>
          (TransportedWeights.meas1 >= 0 /\ TransportedWeights.meas2 >= 0)

\* A second call has completed and has changed the weights, the first one
\* having changed them too; some branch is left without weight.
C33_Witness ==
    /\ ncalls = 2 /\ tt.ok
    /\ call.op = "unzip_with_collapse"
    /\ tt.measure # pre.measure /\ pre.measure # orig.measure
    /\ TransportedWeights.meas1 = 0
    /\ \E i \in 1..Len(tt.measure) : tt.measure[i] = 0 /\ pre.measure[i] > 0

----------------------------------------------------------------------------
(* Rewrites of a measured structure with history tracking: the caller      *)
(* hands a BranchMap of its own making, or None, to unzip_with_collapse    *)
(* and unzip_fold_first_move.                                              *)

MaxHistory == 2

\* What a caller may track: every branch, the pants curves only, nothing.
CallerBranchMaps(t) ==
    {BranchMap(AllBranches(t)), BranchMap(<<1, 2, 3>>), BranchMap(<< >>)}

InitHistory ==
    /\ tt \in {t \in GenusTwoStructures : t.measure[1] = 1}
    /\ pre = tt /\ orig = tt
    /\ call = NoCall /\ ncalls = 0 /\ loop = NoLoop
    /\ branch_map \in CallerBranchMaps(tt)
    /\ old_branch_map = branch_map

CanTrack == tt.ok /\ ncalls < MaxHistory

HistoryReturns(op, args, r, ret) ==
    /\ tt' = r.tt
    /\ branch_map' = r.branch_map
    /\ pre' = tt
    /\ old_branch_map' = branch_map
    /\ call' = [op |-> op, args |-> args, ret |-> ret]
    /\ ncalls' = ncalls + 1
    /\ UNCHANGED <<orig, loop>>

\* tt.unzip_with_collapse(switch, pos, collapse_type, branch_map, start_side)
HistoryUnzipWithCollapse ==
    /\ CanTrack
    /\ \E switch \in Switches(tt), collapse_type \in {UP, TWO_SIDED},
          start_side \in {LEFT, RIGHT}, tracking \in BOOLEAN :
          \E pos \in Positions(tt, switch) :
             LET r == unzip_with_collapse_branch_map(
                          tt, tracking, branch_map, switch, pos, collapse_type,
                          start_side, 0)
             IN  HistoryReturns("unzip_with_collapse",
                                <<switch, pos, collapse_type, start_side, tracking>>,
                                r, r.ret)

\* tt.unzip_fold_first_move(switch, branch_map, inverse)
HistoryFirstMove ==
    /\ CanTrack
    /\ \E switch \in Switches(tt), inverse \in BOOLEAN, tracking \in BOOLEAN :
          HistoryReturns("unzip_fold_first_move", <<switch, inverse, tracking>>,
                         unzip_fold_first_move_branch_map(
                             tt, tracking, branch_map, switch, inverse, 0),
                         None)

NextHistory ==
    \/ HistoryUnzipWithCollapse
    \/ HistoryFirstMove

SpecHistory == InitHistory /\ [][NextHistory]_vars

\* What the last call makes of pre when branch_map is None: the pair
\* (structure, returned value).
WithoutBranchMap ==
    IF call.op = "unzip_with_collapse"
    THEN unzip_with_collapse(pre, call.args[1], call.args[2], call.args[3],
                             call.args[4], 0)
    ELSE [tt |-> unzip_fold_first_move(pre, call.args[1], call.args[2], 0),
          ret |-> None]

SameRewrite(t, u) ==
    /\ t.gluing_list = u.gluing_list
    /\ t.branch_endpoint = u.branch_endpoint
    /\ t.measure = u.measure

\* C34: from the same structure, unzip_with_collapse and
\* unzip_fold_first_move leave the same adjacency lists, endpoints and
\* measure array and return the same value whether branch_map is None or a
\* BranchMap, whatever the BranchMap holds.
C34_BranchMapDoesNotInfluenceRewrite ==
    call.op \in {"unzip_with_collapse", "unzip_fold_first_move"} =>
        /\ SameRewrite(tt, WithoutBranchMap.tt)
        /\ call.ret = WithoutBranchMap.ret

============================================================================
